---- MODULE Spec2Model ----
(***************************************************************************)
(* Model of the trading subsystem of Agent-Foundry (backend/trading):      *)
(* RiskManager, PortfolioManager, ExecutionEngine, FeatureEngine,          *)
(* PerformanceTracker and the TradingSystem orchestrator.  Python floats   *)
(* are modelled as exact rationals <<n, d>> (d > 0, lowest terms); np.sqrt *)
(* is modelled in fixed point.                                             *)
(***************************************************************************)
EXTENDS Integers, Sequences, FiniteSets, TLC

VARIABLES
    now,              \* the clock read by datetime.now(), in seconds
    rm,               \* RiskManager.state (RiskState)
    cash,             \* PortfolioManager.cash
    positions,        \* PortfolioManager.positions: symbol -> Position
    trade_history,    \* PortfolioManager.trade_history
    orders,           \* ExecutionEngine.orders: client_order_id -> OrderState
    completed_orders, \* ExecutionEngine.completed_orders
    slippage_history, \* SlippageModel.predicted_slippage / actual_slippage
    fill_callbacks,   \* invocations of ExecutionEngine._on_fill so far
    nbars,            \* FeatureEngine._data: symbol -> number of buffered bars
    last_close,       \* FeatureEngine._data: symbol -> close of the newest bar
    last_trade_time,  \* TradingSystem.last_trade_time: symbol -> time
    decision_logs,    \* TradingSystem.decision_logs
    performance,      \* PerformanceTracker: trade_pnls, today_pnl, today_trades
    models,           \* ModelSelector.models: name -> ModelRecord
    drift_detector,   \* DriftDetector: reference_data (its keys), drift_history
    learner,          \* OnlineLearner: last_retrain, samples_since_retrain, history
    ensemble,         \* AlphaEnsemble: ts_params, model_performance
    is_running,       \* TradingSystem.is_running
    run,              \* the run_async coroutine: where it is, its locals
    _data,            \* FeatureEngine._data, bar by bar: symbol -> sequence of bars
    _cache,           \* FeatureEngine._cache: symbol -> feature arrays
    last_call         \* the last call made, its arguments, pre-state and result

vars == <<now, rm, cash, positions, trade_history, orders, completed_orders,
          slippage_history, fill_callbacks, nbars, last_close, last_trade_time,
          decision_logs, performance, models, drift_detector, learner, ensemble,
          is_running, run, _data, _cache, last_call>>

riskVars == <<rm>>
portfolioVars == <<cash, positions, trade_history>>
executionVars == <<orders, completed_orders, slippage_history, fill_callbacks>>
systemVars == <<nbars, last_close, last_trade_time, decision_logs>>
learningVars == <<drift_detector, learner, ensemble>>
runVars == <<is_running, run>>
monitoringVars == <<performance, models, learningVars, runVars>>
featureVars == <<_data, _cache>>

-----------------------------------------------------------------------------
(* Exact rational arithmetic standing in for Python floats.                *)

RECURSIVE GCD(_, _)
GCD(a, b) == IF b = 0 THEN a ELSE GCD(b, a % b)

IAbs(i) == IF i < 0 THEN -i ELSE i

Rat(n, d) ==
    LET s == IF d < 0 THEN -1 ELSE 1
        g == GCD(IAbs(n), IAbs(d))
    IN  <<(s * n) \div g, (s * d) \div g>>

R(n) == <<n, 1>>
RAdd(a, b) == Rat(a[1] * b[2] + b[1] * a[2], a[2] * b[2])
RNeg(a) == <<-a[1], a[2]>>
RSub(a, b) == RAdd(a, RNeg(b))
RMul(a, b) == Rat(a[1] * b[1], a[2] * b[2])
RDiv(a, b) == Rat(a[1] * b[2], a[2] * b[1])
RLt(a, b) == a[1] * b[2] < b[1] * a[2]
RLe(a, b) == a[1] * b[2] <= b[1] * a[2]
RAbs(a) == <<IAbs(a[1]), a[2]>>
RMin(a, b) == IF RLe(a, b) THEN a ELSE b
RMax(a, b) == IF RLe(a, b) THEN b ELSE a
RClip(x, lo, hi) == RMin(RMax(x, lo), hi)
RSign(a) == IF a[1] > 0 THEN 1 ELSE IF a[1] < 0 THEN -1 ELSE 0

\* round(x) to the nearest integer, ties to even, as Python's format() does
RRound(a) ==
    LET f == a[1] \div a[2]
        twice == 2 * (a[1] - f * a[2])
    IN  IF twice < a[2] THEN f
        ELSE IF twice > a[2] THEN f + 1
        ELSE IF f % 2 = 0 THEN f ELSE f + 1

\* f"{x:.2%}": x as a percentage with two decimals, i.e. a whole number of
\* basis points
FormatPct2(x) == ToString(RRound(RMul(x, R(10000))))

\* Fixed-point digits kept by the model of np.sqrt
SqrtScale == 100

\* np.sqrt on [0, 1], to 1/SqrtScale (exact on 0 and 1)
RSqrt(a) ==
    LET x == (a[1] * SqrtScale * SqrtScale) \div a[2]
        k == CHOOSE i \in 0..SqrtScale : i * i <= x /\ (i + 1) * (i + 1) > x
    IN  Rat(k, SqrtScale)

\* dict helpers
Put(f, k, v) == [x \in DOMAIN f \cup {k} |-> IF x = k THEN v ELSE f[x]]
Del(f, k) == [x \in DOMAIN f \ {k} |-> f[x]]
EmptyDict == [x \in {} |-> 0]

NoneValue == [none |-> TRUE]

-----------------------------------------------------------------------------
(* core.py: PositionSize                                                   *)

PositionSize(pct, dollars, units, vol_scalar, raw_signal, capped) ==
    [percent_of_nav |-> pct, dollar_amount |-> dollars, num_units |-> units,
     vol_scalar |-> vol_scalar, raw_signal |-> raw_signal, capped |-> capped]

\* PositionSize.scale with the capped bit taken from the factor alone
scale_capped_by_factor(self, factor) ==
    PositionSize(RMul(self.percent_of_nav, factor),
                 RMul(self.dollar_amount, factor),
                 RMul(self.num_units, factor),
                 self.vol_scalar, self.raw_signal,
                 RLt(factor, R(1)))

\* PositionSize.scale
scale(self, factor) ==
    PositionSize(RMul(self.percent_of_nav, factor),
                 RMul(self.dollar_amount, factor),
                 RMul(self.num_units, factor),
                 self.vol_scalar, self.raw_signal,
                 self.capped \/ RLt(factor, R(1)))

-----------------------------------------------------------------------------
(* risk/risk_manager.py                                                    *)

\* RiskLimits defaults
max_daily_loss_pct == Rat(2, 100)
max_drawdown_pct == Rat(10, 100)
max_position_pct == Rat(20, 100)
max_sector_exposure == Rat(40, 100)
max_leverage == R(2)
min_liquidity_ratio == Rat(1, 100)
max_vol_position == Rat(50, 100)
HighVolThreshold == Rat(40, 100)

\* RiskState() as constructed
RiskStateInit ==
    [daily_pnl |-> R(0), peak_nav |-> R(0), current_nav |-> R(0),
     start_of_day_nav |-> R(0), total_exposure |-> R(0),
     sector_exposures |-> EmptyDict,
     kill_switch_active |-> FALSE, kill_switch_reason |-> <<>>,
     violations_today |-> <<>>]

current_drawdown(s) ==
    IF s.peak_nav = R(0) THEN R(0)
    ELSE RDiv(RSub(s.peak_nav, s.current_nav), s.peak_nav)

daily_loss_pct(s) ==
    IF s.start_of_day_nav = R(0) THEN R(0)
    ELSE IF RLe(R(0), s.daily_pnl) THEN R(0)
    ELSE RDiv(RNeg(s.daily_pnl), s.start_of_day_nav)

\* A reason is the sequence of the words of the message.
_activate_kill_switch(s, reason) ==
    [s EXCEPT !.kill_switch_active = TRUE, !.kill_switch_reason = reason]

\* update_nav with the drawdown limit tested strictly
update_nav_strict(s, nav) ==
    LET s1 == [s EXCEPT !.current_nav = nav,
                        !.peak_nav = RMax(s.peak_nav, nav)]
    IN  IF RLt(max_drawdown_pct, current_drawdown(s1))
        THEN _activate_kill_switch(s1,
                 <<"Max", "drawdown", "exceeded:", FormatPct2(current_drawdown(s1))>>)
        ELSE s1

update_nav(s, nav) ==
    LET s1 == [s EXCEPT !.current_nav = nav,
                        !.peak_nav = RMax(s.peak_nav, nav)]
    IN  IF RLe(max_drawdown_pct, current_drawdown(s1))
        THEN _activate_kill_switch(s1,
                 <<"Max", "drawdown", "exceeded:", FormatPct2(current_drawdown(s1))>>)
        ELSE s1

update_pnl(s, pnl) ==
    LET s1 == [s EXCEPT !.daily_pnl = RAdd(s.daily_pnl, pnl)]
    IN  IF RLe(max_daily_loss_pct, daily_loss_pct(s1))
        THEN _activate_kill_switch(s1,
                 <<"Daily", "loss", "limit", "exceeded:", FormatPct2(daily_loss_pct(s1))>>)
        ELSE s1

\* reset_daily_metrics that also clears the kill switch
reset_daily_metrics_clears(s) ==
    [s EXCEPT !.daily_pnl = R(0),
              !.start_of_day_nav = s.current_nav,
              !.violations_today = <<>>,
              !.kill_switch_active = FALSE,
              !.kill_switch_reason = <<>>]

reset_daily_metrics(s) ==
    [s EXCEPT !.daily_pnl = R(0),
              !.start_of_day_nav = s.current_nav,
              !.violations_today = <<>>]

reset_kill_switch(s, authorization) ==
    [s EXCEPT !.kill_switch_active = FALSE, !.kill_switch_reason = <<>>]

_calculate_risk_score(s, position) ==
    LET pos_score == RDiv(RAbs(position.percent_of_nav), max_position_pct)
        loss_score == RDiv(daily_loss_pct(s), max_daily_loss_pct)
        dd_score == RDiv(current_drawdown(s), max_drawdown_pct)
        leverage_score == RDiv(s.total_exposure, max_leverage)
        total == RAdd(RAdd(RMin(pos_score, R(1)), RMin(loss_score, R(1))),
                      RAdd(RMin(dd_score, R(1)), RMin(leverage_score, R(1))))
    IN  RDiv(total, R(4))

Tag(name) == [tag |-> name, detail |-> <<>>]

\* the position size test on the signed percentage
exceeds_position_limit_signed(pct) == RLt(max_position_pct, pct)

\* check 4: abs(percent_of_nav) > max_position_pct
exceeds_position_limit(pct) == RLt(max_position_pct, RAbs(pct))

\* checks 2 to 8 of check_limits and its risk score (lines 189-262)
limit_checks(s, proposed_position, sector, daily_volume, current_vol) ==
      LET pct == proposed_position.percent_of_nav
          v2 == IF RLe(max_daily_loss_pct, daily_loss_pct(s))
                THEN <<Tag("daily_loss")>> ELSE <<>>
          v3 == IF RLe(max_drawdown_pct, current_drawdown(s))
                THEN <<Tag("max_drawdown")>> ELSE <<>>
          v4 == IF exceeds_position_limit(pct)
                THEN <<Tag("position_size")>> ELSE <<>>
          current_sector == IF sector \in DOMAIN s.sector_exposures
                            THEN s.sector_exposures[sector] ELSE R(0)
          new_sector == RAdd(current_sector, pct)
          v5 == IF sector # "" /\ RLt(max_sector_exposure, RAbs(new_sector))
                THEN <<Tag("sector_exposure")>> ELSE <<>>
          new_exposure == RAdd(s.total_exposure, RAbs(pct))
          v6 == IF RLt(max_leverage, new_exposure)
                THEN <<Tag("leverage")>> ELSE <<>>
          v7 == IF RLt(R(0), daily_volume)
                   /\ RLt(min_liquidity_ratio,
                          RDiv(RAbs(proposed_position.dollar_amount), daily_volume))
                THEN <<Tag("liquidity")>> ELSE <<>>
          v8 == IF RLt(HighVolThreshold, current_vol)
                   /\ RLt(max_vol_position, RAbs(pct))
                THEN <<Tag("volatility")>> ELSE <<>>
          violations == v2 \o v3 \o v4 \o v5 \o v6 \o v7 \o v8
          risk_score == _calculate_risk_score(s, proposed_position)
      IN  IF violations # <<>>
          THEN [approved |-> FALSE, violations |-> violations,
                adjusted_position |-> NoneValue, risk_score |-> risk_score]
          ELSE [approved |-> TRUE, violations |-> <<>>,
                adjusted_position |-> proposed_position, risk_score |-> risk_score]

\* RiskManager.check_limits: the kill switch first, then the limits
check_limits(s, proposed_position, sector, daily_volume, current_vol) ==
    IF s.kill_switch_active
    THEN [approved |-> FALSE,
          violations |-> <<[tag |-> "KILL_SWITCH", detail |-> s.kill_switch_reason]>>,
          adjusted_position |-> NoneValue,
          risk_score |-> R(1)]
    ELSE limit_checks(s, proposed_position, sector, daily_volume, current_vol)

\* scale_factor = min(sqrt(base_scale) ** (1 - 0.5 * urgency), 1.0), for the
\* urgencies whose exponent is 1 (urgency 0), 3/4 (urgency 1/2) or 1/2
\* (urgency 1)
scale_factor(s, urgency) ==
    LET dd_headroom == RMax(R(0), RSub(max_drawdown_pct, current_drawdown(s)))
        dd_ratio == RDiv(dd_headroom, max_drawdown_pct)
        daily_headroom == RMax(R(0), RSub(max_daily_loss_pct, daily_loss_pct(s)))
        daily_ratio == RDiv(daily_headroom, max_daily_loss_pct)
        base_scale == RMin(dd_ratio, daily_ratio)
        root == RSqrt(base_scale)
        powered == IF urgency = R(0) THEN root
                   ELSE IF urgency = R(1) THEN RSqrt(root)
                   ELSE RSqrt(RMul(root, RSqrt(root)))
    IN  RMin(powered, R(1))

scale_for_risk(s, position, urgency) == scale(position, scale_factor(s, urgency))

-----------------------------------------------------------------------------
(* risk/portfolio.py                                                       *)

initial_capital == 100000

\* Position(symbol, quantity, avg_entry_price, current_price, side), with
\* opened_at defaulting to datetime.now() and realized_pnl to 0.0
Position(symbol, quantity, price, side, t) ==
    [symbol |-> symbol, quantity |-> quantity, avg_entry_price |-> price,
     current_price |-> price, side |-> side, opened_at |-> t,
     realized_pnl |-> R(0)]

market_value(pos) == RMul(RAbs(pos.quantity), pos.current_price)

unrealized_pnl(pos) ==
    IF pos.side = "buy"
    THEN RMul(pos.quantity, RSub(pos.current_price, pos.avg_entry_price))
    ELSE RMul(pos.quantity, RSub(pos.avg_entry_price, pos.current_price))

\* A portfolio is [cash, positions, trade_history].
PortfolioInit ==
    [cash |-> R(initial_capital), positions |-> EmptyDict, trade_history |-> <<>>]

RECURSIVE SumMarketValue(_, _)
SumMarketValue(ps, syms) ==
    IF syms = {} THEN R(0)
    ELSE LET s == CHOOSE x \in syms : TRUE
         IN  RAdd(market_value(ps[s]), SumMarketValue(ps, syms \ {s}))

nav(P) == RAdd(P.cash, SumMarketValue(P.positions, DOMAIN P.positions))

\* PortfolioManager.total_exposure: the positions' market value as a fraction
\* of NAV
total_exposure(P) ==
    IF nav(P) = R(0) THEN R(0)
    ELSE RDiv(SumMarketValue(P.positions, DOMAIN P.positions), nav(P))

update_price(P, symbol, price) ==
    IF symbol \in DOMAIN P.positions
    THEN [P EXCEPT !.positions[symbol].current_price = price]
    ELSE P

\* realized P&L of closing q units of pos at price, signed by the side held
RealizedOn(pos, q, price) ==
    LET realized == RMul(q, RSub(price, pos.avg_entry_price))
    IN  IF pos.side = "sell" THEN RNeg(realized) ELSE realized

\* an opposite fill that leaves nothing of the position it meets
closes_or_reverses_strict(pos, quantity) == RLt(pos.quantity, quantity)

\* the test of line 133: the opposite fill covers the whole position
closes_or_reverses(pos, quantity) == RLe(pos.quantity, quantity)

\* a reversal that leaves the position on its old side
reversed_position_keeps_side(closed, remaining, price, side) ==
    [closed EXCEPT !.quantity = remaining, !.avg_entry_price = price]

\* the position a reversal leaves (lines 142-146)
reversed_position(closed, remaining, price, side) ==
    [closed EXCEPT !.quantity = remaining, !.avg_entry_price = price, !.side = side]

\* the ledger after the position branch of open_position (lines 121-162)
open_position_ledger(P, symbol, quantity, price, side, t) ==
    IF symbol \in DOMAIN P.positions
    THEN LET pos == P.positions[symbol]
         IN  IF pos.side = side
             THEN LET total_qty == RAdd(pos.quantity, quantity)
                      total_cost == RAdd(RMul(pos.quantity, pos.avg_entry_price),
                                         RMul(quantity, price))
                  IN  [P EXCEPT !.positions[symbol].avg_entry_price =
                                    RDiv(total_cost, total_qty),
                                !.positions[symbol].quantity = total_qty]
             ELSE IF closes_or_reverses(pos, quantity)
                  THEN LET realized == RealizedOn(pos, pos.quantity, price)
                           remaining == RSub(quantity, pos.quantity)
                           closed == [pos EXCEPT !.realized_pnl = RAdd(@, realized)]
                       IN  IF RLt(R(0), remaining)
                           THEN [P EXCEPT !.cash = RAdd(@, realized),
                                          !.positions[symbol] =
                                              reversed_position(closed, remaining,
                                                                price, side)]
                           ELSE [P EXCEPT !.cash = RAdd(@, realized),
                                          !.positions = Del(@, symbol)]
                  ELSE LET realized == RealizedOn(pos, quantity, price)
                       IN  [P EXCEPT !.cash = RAdd(@, realized),
                                     !.positions[symbol].realized_pnl = RAdd(@, realized),
                                     !.positions[symbol].quantity = RSub(@, quantity)]
    ELSE [P EXCEPT !.positions = Put(@, symbol, Position(symbol, quantity, price, side, t))]

open_position(P, symbol, quantity, price, side, t) ==
    LET cost == RMul(quantity, price)
        P1 == open_position_ledger(P, symbol, quantity, price, side, t)
    IN  [P1 EXCEPT !.cash = IF side = "buy" THEN RSub(@, cost) ELSE RAdd(@, cost),
                   !.trade_history = Append(@,
                       [timestamp |-> t, symbol |-> symbol, side |-> side,
                        quantity |-> quantity, price |-> price, value |-> cost])]

\* the realized P&L close_position returns
close_position_result(P, symbol, price) ==
    IF symbol \notin DOMAIN P.positions THEN R(0)
    ELSE LET pos == P.positions[symbol]
         IN  IF pos.side = "buy"
             THEN RMul(pos.quantity, RSub(price, pos.avg_entry_price))
             ELSE RMul(pos.quantity, RSub(pos.avg_entry_price, price))

\* close_position that books the proceeds of a short as it does those of a long
close_position_long_only(P, symbol, price, t) ==
    IF symbol \notin DOMAIN P.positions THEN P
    ELSE LET pos == P.positions[symbol]
             proceeds == RMul(pos.quantity, price)
         IN  [cash |-> RAdd(P.cash, proceeds),
              positions |-> Del(P.positions, symbol),
              trade_history |-> Append(P.trade_history,
                  [timestamp |-> t, symbol |-> symbol, side |-> "close",
                   quantity |-> pos.quantity, price |-> price,
                   realized_pnl |-> close_position_result(P, symbol, price)])]

\* the portfolio close_position leaves
close_position(P, symbol, price, t) ==
    IF symbol \notin DOMAIN P.positions THEN P
    ELSE LET pos == P.positions[symbol]
             proceeds == RMul(pos.quantity, price)
         IN  [cash |-> IF pos.side = "buy" THEN RAdd(P.cash, proceeds)
                       ELSE RSub(P.cash, proceeds),
              positions |-> Del(P.positions, symbol),
              trade_history |-> Append(P.trade_history,
                  [timestamp |-> t, symbol |-> symbol, side |-> "close",
                   quantity |-> pos.quantity, price |-> price,
                   realized_pnl |-> close_position_result(P, symbol, price)])]

-----------------------------------------------------------------------------
(* execution/slippage.py and execution/engine.py                           *)

impact_coefficient == Rat(1, 10)

\* SlippageModel.estimate
estimate(order_size, daily_volume, volatility, spread_bps) ==
    LET spread_cost_bps == RDiv(spread_bps, R(2))
        participation == IF RLt(R(0), daily_volume)
                         THEN RDiv(order_size, daily_volume) ELSE Rat(1, 100)
        market_impact == RMul(RMul(impact_coefficient, volatility),
                              RMul(RSqrt(participation), R(10000)))
    IN  [spread_cost_bps |-> spread_cost_bps,
         market_impact_bps |-> market_impact,
         total_cost_bps |-> RAdd(spread_cost_bps, market_impact),
         confidence |-> IF RLt(R(0), daily_volume) THEN Rat(7, 10) ELSE Rat(3, 10)]

SlippageHistoryCap == 1000

LastN(seq, n) ==
    IF Len(seq) <= n THEN seq ELSE SubSeq(seq, Len(seq) - n + 1, Len(seq))

\* SlippageModel.record_execution
record_execution(h, predicted_bps, actual_bps) ==
    [predicted |-> LastN(Append(h.predicted, predicted_bps), SlippageHistoryCap),
     actual |-> LastN(Append(h.actual, actual_bps), SlippageHistoryCap)]

\* submit's defaults
DefaultDailyVolume == 1000000
DefaultVolatility == Rat(20, 100)
DefaultSpreadBps == 10

\* An engine is [orders, completed_orders, slippage_history, callbacks].
EngineInit ==
    [orders |-> EmptyDict, completed_orders |-> <<>>,
     slippage_history |-> [predicted |-> <<>>, actual |-> <<>>],
     callbacks |-> [registered |-> FALSE, fill_calls |-> 0, complete_calls |-> 0]]

\* ExecutionEngine.submit, for orders that are not TWAP or VWAP (no child
\* orders are scheduled)
submit(E, order, mid_price, t) ==
    LET order_value == RMul(order.quantity, mid_price)
        state == [order |-> order, status |-> "submitted", submitted_at |-> t,
                  filled_quantity |-> R(0), avg_fill_price |-> R(0),
                  fills |-> <<>>, child_orders |-> <<>>,
                  slippage_estimate |-> estimate(order_value, R(DefaultDailyVolume),
                                                 DefaultVolatility, R(DefaultSpreadBps)),
                  actual_slippage_bps |-> R(0)]
    IN  [E EXCEPT !.orders = Put(@, order.client_order_id, state)]

\* ExecutionEngine._on_order_complete
_on_order_complete(E, state) ==
    LET predicted == state.slippage_estimate.total_cost_bps
        done == [state EXCEPT !.actual_slippage_bps = RMul(predicted, Rat(11, 10))]
    IN  [E EXCEPT !.slippage_history =
                      record_execution(@, predicted, done.actual_slippage_bps),
                  !.completed_orders = Append(@, done),
                  !.orders = Del(@, state.order.client_order_id),
                  !.callbacks.complete_calls =
                      IF E.callbacks.registered THEN @ + 1 ELSE @]

\* record_fill that reaches the fill callback for an order id it does not know
record_fill_unknown_notifies(E, order_id, fill_quantity, fill_price) ==
    [E EXCEPT !.callbacks.fill_calls = IF E.callbacks.registered THEN @ + 1 ELSE @]

\* record_fill's early return for an order id that is not in self.orders
record_fill_unknown(E, order_id, fill_quantity, fill_price) == E

\* ExecutionEngine.record_fill
record_fill(E, order_id, fill_quantity, fill_price, t) ==
    IF order_id \notin DOMAIN E.orders
    THEN record_fill_unknown(E, order_id, fill_quantity, fill_price)
    ELSE
      LET state == E.orders[order_id]
          old_filled == state.filled_quantity
          filled == RAdd(old_filled, fill_quantity)
          avg == IF RLt(R(0), filled)
                 THEN RDiv(RAdd(RMul(old_filled, state.avg_fill_price),
                                RMul(fill_quantity, fill_price)), filled)
                 ELSE state.avg_fill_price
          s1 == [state EXCEPT !.filled_quantity = filled,
                              !.avg_fill_price = avg,
                              !.fills = Append(@, [quantity |-> fill_quantity,
                                                   price |-> fill_price,
                                                   timestamp |-> t])]
          E1 == IF RLe(state.order.quantity, filled)
                THEN _on_order_complete(E, [s1 EXCEPT !.status = "filled"])
                ELSE [E EXCEPT !.orders[order_id] = [s1 EXCEPT !.status = "partial"]]
      IN  [E1 EXCEPT !.callbacks.fill_calls =
                         IF E.callbacks.registered THEN @ + 1 ELSE @]

\* what cancel_order returns
cancel_order_result(E, order_id) ==
    /\ order_id \in DOMAIN E.orders
    /\ E.orders[order_id].status \notin {"filled", "cancelled"}

\* the engine cancel_order leaves
cancel_order(E, order_id) ==
    IF ~cancel_order_result(E, order_id) THEN E
    ELSE LET state == [E.orders[order_id] EXCEPT !.status = "cancelled"]
         IN  [E EXCEPT !.completed_orders = Append(@, state),
                       !.orders = Del(@, order_id)]

min_order_value == 100
max_order_value == 50000
LargeOrderValue == 10000

\* ExecutionEngine._select_order_type, default_algorithm "twap"
_select_order_type(regime, order_value) ==
    IF RLt(R(LargeOrderValue), order_value) /\ regime \in {"normal", "low_volatility"}
    THEN "twap"
    ELSE IF regime = "high_volatility" THEN "limit"
    ELSE "market"

\* TradeOrder.__post_init__: the id is the clock reading, to the microsecond
NewOrderId(t) == "ord_" \o ToString(t)

\* the significance test of create_order with the minimum itself refused
below_minimum_inclusive(trade_value) == RLe(trade_value, R(min_order_value))

\* create_order's significance test (line 110)
below_minimum(trade_value) == RLt(trade_value, R(min_order_value))

\* ExecutionEngine.create_order
create_order(symbol, target, current_position, current_price, regime, t) ==
    LET wanted == RSub(target.num_units, current_position)
        trade_value == RAbs(RMul(wanted, current_price))
        trade_quantity == IF RLt(R(max_order_value), trade_value)
                          THEN RMul(RDiv(R(max_order_value), current_price),
                                    R(RSign(wanted)))
                          ELSE wanted
    IN  IF below_minimum(trade_value) THEN NoneValue
        ELSE [symbol |-> symbol,
              side |-> IF RLt(R(0), trade_quantity) THEN "buy" ELSE "sell",
              order_type |-> _select_order_type(regime, trade_value),
              quantity |-> RAbs(trade_quantity),
              client_order_id |-> NewOrderId(t),
              metadata |-> [target_position |-> target.percent_of_nav,
                            regime |-> regime,
                            signal_strength |-> target.raw_signal]]

-----------------------------------------------------------------------------
(* execution/algorithms.py: TWAPAlgorithm                                  *)

\* TWAPAlgorithm(duration_minutes, num_slices, randomize_timing, randomize_pct)
randomize_pct == Rat(2, 10)

TWAPAlgorithm(duration_minutes, num_slices, randomize_timing) ==
    [duration_minutes |-> duration_minutes, num_slices |-> num_slices,
     randomize_timing |-> randomize_timing, randomize_pct |-> randomize_pct]

ChildOrder(sequence, quantity, scheduled_time, limit_price) ==
    [sequence |-> sequence, quantity |-> quantity, scheduled_time |-> scheduled_time,
     limit_price |-> limit_price, executed |-> FALSE, fill_price |-> NoneValue,
     fill_quantity |-> R(0)]

\* the quantity of slice i with every slice, the last too, drawn around the
\* base size
slice_quantity_all_drawn(self, i, base_slice_size, remaining_qty, draw) ==
    RMin(RMul(base_slice_size, draw), remaining_qty)

\* the quantity of slice i (lines 87-93): the last slice gets the remainder,
\* the others base_slice_size * uniform(0.9, 1.1), at most what remains
slice_quantity(self, i, base_slice_size, remaining_qty, draw) ==
    IF i = self.num_slices - 1 THEN remaining_qty
    ELSE RMin(RMul(base_slice_size, draw), remaining_qty)

\* the time of slice i (lines 76-84), in seconds: offset is the draw of
\* uniform(-1, 1) that scales randomize_pct * interval_seconds
slice_time(self, i, start_time, interval_seconds, offset) ==
    IF self.randomize_timing
    THEN RAdd(RAdd(start_time, RMul(R(i), interval_seconds)),
              RMul(offset, RMul(self.randomize_pct, interval_seconds)))
    ELSE RAdd(start_time, RMul(R(i), interval_seconds))

\* the loop of generate_schedule from slice i on; draws[i + 1] holds the two
\* random draws of slice i
RECURSIVE schedule_from(_, _, _, _, _, _, _)
schedule_from(self, i, start_time, limit_price, total_quantity, remaining_qty, draws) ==
    IF i >= self.num_slices THEN <<>>
    ELSE LET slice_qty ==
                 slice_quantity(self, i, RDiv(total_quantity, R(self.num_slices)),
                                remaining_qty, draws[i + 1].size)
             scheduled_time ==
                 slice_time(self, i, start_time,
                            RDiv(R(self.duration_minutes * 60), R(self.num_slices)),
                            draws[i + 1].offset)
         IN  <<ChildOrder(i, slice_qty, scheduled_time, limit_price)>>
             \o schedule_from(self, i + 1, start_time, limit_price, total_quantity,
                              RSub(remaining_qty, slice_qty), draws)

\* TWAPAlgorithm.generate_schedule
generate_schedule(self, total_quantity, start_time, limit_price, draws) ==
    schedule_from(self, 0, start_time, limit_price, total_quantity, total_quantity, draws)

-----------------------------------------------------------------------------
(* risk/position_sizer.py and core.py: AlphaSignal                         *)

target_vol == Rat(15, 100)
vol_floor == Rat(5, 100)
vol_ceiling == R(1)
min_position == Rat(1, 100)

\* AlphaSignal.__post_init__
AlphaSignal(value, confidence) ==
    [value |-> RClip(value, R(-1), R(1)), confidence |-> RClip(confidence, R(0), R(1))]

\* AlphaSignal.is_active
is_active(sig) == RLt(Rat(1, 100), RAbs(sig.value)) /\ RLt(Rat(1, 10), sig.confidence)

\* size_position once the raw and the constrained percentage are known
\* (lines 164-177)
SizedPosition(signal, vol_scalar, raw_position_pct, position_pct, nav_now, current_price) ==
    PositionSize(position_pct,
                 RMul(position_pct, nav_now),
                 IF RLt(R(0), current_price)
                 THEN RDiv(RMul(position_pct, nav_now), current_price) ELSE R(0),
                 vol_scalar, signal.value,
                 RAbs(raw_position_pct) # RAbs(position_pct))

\* the leverage constraint, the single position limit and the minimum
\* position threshold of size_position (lines 148-162)
ConstrainedPct(raw_position_pct) ==
    LET limited == RClip(RClip(raw_position_pct, RNeg(max_leverage), max_leverage),
                         RNeg(max_position_pct), max_position_pct)
    IN  IF RLt(RAbs(limited), min_position) THEN R(0) ELSE limited

\* size_position once the volatility scalar is known (lines 141-177)
SizedAtScalar(signal, vol_scalar, nav_now, current_price) ==
    SizedPosition(signal, vol_scalar,
                  RMul(vol_scalar, RMul(signal.value, signal.confidence)),
                  ConstrainedPct(RMul(vol_scalar, RMul(signal.value, signal.confidence))),
                  nav_now, current_price)

\* VolatilityTargetedSizer.size_position, risk_budget_pct = 1.0
size_position(signal, asset_vol, nav_now, current_price) ==
    SizedAtScalar(signal, RDiv(target_vol, RClip(asset_vol, vol_floor, vol_ceiling)),
                  nav_now, current_price)

-----------------------------------------------------------------------------
(* features/engine.py, features/calculators.py                             *)
(* A bar is [timestamp, close, volume]; an engine is [data, cache].        *)

\* FeatureEngine(max_history=1000)
max_history == 1000

FeatureEngineInit == [data |-> EmptyDict, cache |-> EmptyDict]

\* the buffer FeatureEngine.update leaves for the symbol
appended_buffer(F, symbol, bar) ==
    IF symbol \in DOMAIN F.data
    THEN LastN(Append(F.data[symbol], bar), max_history)
    ELSE <<bar>>

\* update that leaves the symbol's cached features in place
feature_update_keeps_cache(F, symbol, bar) ==
    [data |-> Put(F.data, symbol, appended_buffer(F, symbol, bar)), cache |-> F.cache]

\* FeatureEngine.update_batch: replace the buffer by the tail of the frame,
\* drop the cache
feature_update_batch(F, symbol, ohlcv) ==
    [data |-> Put(F.data, symbol, LastN(ohlcv, max_history)),
     cache |-> Del(F.cache, symbol)]

\* FeatureEngine.update: append the bar, trim to max_history, drop the cache
feature_update(F, symbol, bar) ==
    [data |-> Put(F.data, symbol, appended_buffer(F, symbol, bar)),
     cache |-> Del(F.cache, symbol)]

\* VolumeFeatures.dollar_volume: prices * volume, element by element
dollar_volume(df) == [i \in 1..Len(df) |-> RMul(df[i].close, df[i].volume)]

\* FeatureEngine._calculate_all_features, for the feature dollar_volume
_calculate_all_features(df) == [name \in {"dollar_volume"} |-> dollar_volume(df)]

\* {k: v[-1] for k, v in arrays.items()}
latest_values(arrays) ==
    [name \in DOMAIN arrays |-> arrays[name][Len(arrays[name])]]

\* FeatureSet(symbol, timestamp or datetime.now(), features); the optional
\* timestamp is <<>> (None) or <<time>>
FeatureSet(symbol, timestamp, features, t) ==
    [symbol |-> symbol,
     timestamp |-> IF timestamp = <<>> THEN t ELSE timestamp[1],
     features |-> features]

\* FeatureEngine.get_features at clock t: the engine it leaves and the
\* FeatureSet it returns
get_features(F, symbol, timestamp, t) ==
    IF symbol \notin DOMAIN F.data
    THEN [engine |-> F, result |-> FeatureSet(symbol, timestamp, EmptyDict, t)]
    ELSE IF Len(F.data[symbol]) < 2
    THEN [engine |-> F, result |-> FeatureSet(symbol, timestamp, EmptyDict, t)]
    ELSE IF symbol \in DOMAIN F.cache
    THEN [engine |-> F,
          result |-> FeatureSet(symbol, timestamp, latest_values(F.cache[symbol]), t)]
    ELSE LET features_dict == _calculate_all_features(F.data[symbol])
         IN  [engine |-> [F EXCEPT !.cache = Put(@, symbol, features_dict)],
              result |-> FeatureSet(symbol, timestamp, latest_values(features_dict), t)]

-----------------------------------------------------------------------------
(* monitoring/tracker.py                                                   *)

\* PerformanceTracker() as constructed: the fields record_trade writes
TrackerInit ==
    [trade_pnls |-> <<>>, today_pnl |-> R(0), today_trades |-> 0,
     model_pnls |-> EmptyDict, model_trades |-> EmptyDict]

\* PerformanceTracker.record_trade(pnl), called without a model name
record_trade(T, pnl) ==
    [T EXCEPT !.trade_pnls = Append(@, pnl),
              !.today_pnl = RAdd(@, pnl),
              !.today_trades = @ + 1]

-----------------------------------------------------------------------------
(* monitoring/learning.py                                                  *)

decay_factor == Rat(99, 100)
PnlHistoryCap == 100

\* ModelRecord as register_model builds it: the counters and the Thompson
\* Sampling parameters.  sharpe_ratio is written only once more than ten
\* outcomes are in pnl_history and is read by neither update below.
ModelRecord(name) ==
    [name |-> name, trade_count |-> 0, total_pnl |-> R(0), pnl_history |-> <<>>,
     win_rate |-> R(0), ts_alpha |-> R(1), ts_beta |-> R(1)]

\* TradingSystem._init_models: the alpha models of the default configuration
AlphaModelNames == {"momentum", "mean_reversion", "volatility_breakout"}

\* ModelSelector() after TradingSystem._init_monitoring registered each model
SelectorInit == [name \in AlphaModelNames |-> ModelRecord(name)]

Wins(history) == Cardinality({i \in 1..Len(history) : RLt(R(0), history[i])})

\* max(1.0, x * self.decay_factor)
decayed(x) == RMax(R(1), RMul(x, decay_factor))

\* ModelSelector.record_outcome
record_outcome(M, model_name, pnl, was_correct) ==
    IF model_name \notin DOMAIN M THEN M
    ELSE LET record == M[model_name]
             history == LastN(Append(record.pnl_history, pnl), PnlHistoryCap)
             magnitude == RMin(RMul(RAbs(pnl), R(100)), R(1))
             alpha == IF was_correct THEN RAdd(record.ts_alpha, magnitude)
                      ELSE record.ts_alpha
             beta == IF was_correct THEN record.ts_beta
                     ELSE RAdd(record.ts_beta, magnitude)
         IN  Put(M, model_name,
                 [record EXCEPT !.trade_count = @ + 1,
                                !.total_pnl = RAdd(@, pnl),
                                !.pnl_history = history,
                                !.win_rate = Rat(Wins(history), Len(history)),
                                !.ts_alpha = decayed(alpha),
                                !.ts_beta = decayed(beta)])

\* the mean of the Beta(ts_alpha, ts_beta) posterior
posterior_mean(record) == RDiv(record.ts_alpha, RAdd(record.ts_alpha, record.ts_beta))

\* OnlineLearner(retrain_frequency_days, min_samples_for_retrain), without a
\* train_callback as TradingSystem builds it
retrain_frequency_days == 7
min_samples_for_retrain == 1000
DaySeconds == 86400

\* last_retrain is <<>> for None and <<t>> for a time
LearnerInit == [last_retrain |-> <<>>, samples_since_retrain |-> 0,
                retrain_history |-> <<>>]

\* OnlineLearner.add_sample
add_sample(L) == [L EXCEPT !.samples_since_retrain = @ + 1]

\* should_retrain without its test of the time since the last retrain
should_retrain_samples_only(L, t) ==
    L.samples_since_retrain >= min_samples_for_retrain

\* OnlineLearner.should_retrain; timedelta.days is the whole days elapsed
should_retrain(L, t) ==
    IF L.samples_since_retrain < min_samples_for_retrain THEN FALSE
    ELSE IF L.last_retrain = <<>> THEN TRUE
    ELSE (t - L.last_retrain[1]) \div DaySeconds >= retrain_frequency_days

\* the result dictionary of trigger_retrain
retrain_result(L, model_name, t) ==
    [model_name |-> model_name, timestamp |-> t,
     samples_used |-> L.samples_since_retrain, status |-> "completed"]

\* OnlineLearner.trigger_retrain
trigger_retrain(L, model_name, t) ==
    [last_retrain |-> <<t>>, samples_since_retrain |-> 0,
     retrain_history |-> Append(L.retrain_history, retrain_result(L, model_name, t))]

-----------------------------------------------------------------------------
(* monitoring/drift.py                                                     *)
(* A detector is [reference_data, drift_history]: the names that have a    *)
(* reference distribution and the results recorded so far.                 *)

p_value_threshold == Rat(5, 100)
DriftWindow == 100

DriftDetectorInit == [reference_data |-> {}, drift_history |-> <<>>]

DriftResult(feature_name, test_type, statistic, p_value, drift_detected, severity, t) ==
    [feature_name |-> feature_name, test_type |-> test_type, statistic |-> statistic,
     p_value |-> p_value, drift_detected |-> drift_detected, severity |-> severity,
     timestamp |-> t]

\* DriftDetector.set_reference
set_reference(D, feature_name) ==
    [D EXCEPT !.reference_data = @ \cup {feature_name}]

\* the severity test_ks gives a result (lines 108-116)
ks_severity(statistic, drift_detected) ==
    IF RLt(Rat(3, 10), statistic) THEN "high"
    ELSE IF RLt(Rat(15, 100), statistic) THEN "medium"
    ELSE IF drift_detected THEN "low"
    ELSE "none"

\* the DriftResult of test_ks, where ks_2samp gave (statistic, p_value)
test_ks_result(D, feature_name, statistic, p_value, t) ==
    IF feature_name \notin D.reference_data
    THEN DriftResult(feature_name, "ks", R(0), R(1), FALSE, "none", t)
    ELSE DriftResult(feature_name, "ks", statistic, p_value,
                     RLt(p_value, p_value_threshold),
                     ks_severity(statistic, RLt(p_value, p_value_threshold)), t)

\* DriftDetector.test_ks: the detector it leaves
test_ks(D, feature_name, statistic, p_value, t) ==
    IF feature_name \notin D.reference_data THEN D
    ELSE [D EXCEPT !.drift_history =
              Append(@, test_ks_result(D, feature_name, statistic, p_value, t))]

\* DriftDetector.get_drift_summary
get_drift_summary(D) ==
    IF D.drift_history = <<>> THEN [status |-> "no_drift_tests"]
    ELSE LET recent == LastN(D.drift_history, DriftWindow)
             drifting == {i \in 1..Len(recent) : recent[i].drift_detected}
         IN  [status |-> "ok",
              total_tests |-> Len(recent),
              drift_detected |-> Cardinality(drifting),
              drift_rate |-> Rat(Cardinality(drifting), Len(recent)),
              high_severity |->
                  Cardinality({i \in drifting : recent[i].severity = "high"}),
              medium_severity |->
                  Cardinality({i \in drifting : recent[i].severity = "medium"}),
              low_severity |->
                  Cardinality({i \in drifting : recent[i].severity = "low"}),
              drifting_features |-> {recent[i].feature_name : i \in drifting}]

\* DriftDetector.should_retrain
should_retrain_on_drift(D, threshold) ==
    LET summary == get_drift_summary(D)
    IN  IF summary.status = "no_drift_tests" THEN FALSE
        ELSE IF RLt(threshold, summary.drift_rate) THEN TRUE
        ELSE summary.high_severity > 0

-----------------------------------------------------------------------------
(* alpha_models/ensemble.py                                                *)

min_confidence == Rat(1, 10)

Weights(momentum, mean_reversion, volatility_breakout) ==
    [name \in AlphaModelNames |->
        CASE name = "momentum" -> momentum
          [] name = "mean_reversion" -> mean_reversion
          [] name = "volatility_breakout" -> volatility_breakout]

MarketRegimes ==
    {"trending_up", "trending_down", "mean_reverting", "high_volatility",
     "low_volatility", "crisis", "normal"}

\* the regime table with the CRISIS row filled like the NORMAL row
regime_weights_crisis_trades ==
    [regime \in MarketRegimes |->
        CASE regime \in {"trending_up", "trending_down"} ->
                 Weights(Rat(6, 10), Rat(1, 10), Rat(3, 10))
          [] regime = "mean_reverting" -> Weights(Rat(1, 10), Rat(7, 10), Rat(2, 10))
          [] regime = "high_volatility" -> Weights(Rat(3, 10), Rat(2, 10), Rat(5, 10))
          [] regime = "low_volatility" -> Weights(Rat(4, 10), Rat(5, 10), Rat(1, 10))
          [] regime \in {"crisis", "normal"} ->
                 Weights(Rat(4, 10), Rat(4, 10), Rat(2, 10))]

\* AlphaEnsemble.regime_weights
regime_weights ==
    [regime \in MarketRegimes |->
        CASE regime \in {"trending_up", "trending_down"} ->
                 Weights(Rat(6, 10), Rat(1, 10), Rat(3, 10))
          [] regime = "mean_reverting" -> Weights(Rat(1, 10), Rat(7, 10), Rat(2, 10))
          [] regime = "high_volatility" -> Weights(Rat(3, 10), Rat(2, 10), Rat(5, 10))
          [] regime = "low_volatility" -> Weights(Rat(4, 10), Rat(5, 10), Rat(1, 10))
          [] regime = "crisis" -> Weights(R(0), R(0), R(0))
          [] regime = "normal" -> Weights(Rat(4, 10), Rat(4, 10), Rat(2, 10))]

\* AlphaEnsemble.default_weights
default_weights == [name \in AlphaModelNames |-> Rat(1, Cardinality(AlphaModelNames))]

\* sum(f[k] for k in S)
RECURSIVE SumOver(_, _)
SumOver(f, S) ==
    IF S = {} THEN R(0)
    ELSE LET k == CHOOSE x \in S : TRUE
         IN  RAdd(f[k], SumOver(f, S \ {k}))

\* the weights of generate_combined_signal (lines 68-79): the regime's row,
\* filtered to the models that gave a signal, normalised when the total is > 0
signal_weights(signals, regime) ==
    LET row == IF regime \in DOMAIN regime_weights THEN regime_weights[regime]
               ELSE default_weights
        weights == [k \in DOMAIN row \cap DOMAIN signals |-> row[k]]
        total_weight == SumOver(weights, DOMAIN weights)
    IN  IF RLt(R(0), total_weight)
        THEN [k \in DOMAIN weights |-> RDiv(weights[k], total_weight)]
        ELSE weights

\* the confidence-weighted combination (lines 81-138)
combine(signals, weights) ==
    LET used == {name \in DOMAIN signals :
                     RLe(min_confidence, signals[name].confidence)}
        weight == [name \in used |->
                      IF name \in DOMAIN weights THEN weights[name] ELSE R(0)]
        effective_weight == [name \in used |->
                                RMul(weight[name], signals[name].confidence)]
        combined_value ==
            SumOver([name \in used |->
                        RMul(signals[name].value, effective_weight[name])], used)
        combined_confidence ==
            SumOver([name \in used |->
                        RMul(signals[name].confidence, weight[name])], used)
        total_weight_used == SumOver(effective_weight, used)
    IN  AlphaSignal(IF RLt(R(0), total_weight_used)
                    THEN RDiv(combined_value, total_weight_used)
                    ELSE combined_value,
                    RMin(combined_confidence, R(1)))

\* AlphaEnsemble.generate_combined_signal without Thompson sampling, on the
\* signals its models generated
generate_combined_signal(signals, regime) ==
    combine(signals, signal_weights(signals, regime))

PerformanceCap == 100
ts_decay == Rat(99, 100)

\* AlphaEnsemble.__init__: uniform Thompson priors and empty P&L histories
EnsembleInit ==
    [ts_params |-> [name \in AlphaModelNames |-> [alpha |-> R(1), beta |-> R(1)]],
     model_performance |-> [name \in AlphaModelNames |-> <<>>]]

\* the decay loop of update_thompson_params over every model
decay_params(params) ==
    [name \in DOMAIN params |->
        [alpha |-> RMax(R(1), RMul(params[name].alpha, ts_decay)),
         beta |-> RMax(R(1), RMul(params[name].beta, ts_decay))]]

\* AlphaEnsemble.update_thompson_params
update_thompson_params(E, model_name, success, magnitude) ==
    IF model_name \notin DOMAIN E.ts_params THEN E
    ELSE [E EXCEPT !.ts_params =
             decay_params([@ EXCEPT ![model_name] =
                 IF success THEN [@ EXCEPT !.alpha = RAdd(@, magnitude)]
                 ELSE [@ EXCEPT !.beta = RAdd(@, magnitude)]])]

\* AlphaEnsemble.record_model_performance
record_model_performance(E, model_name, pnl) ==
    IF model_name \notin DOMAIN E.model_performance THEN E
    ELSE update_thompson_params(
             [E EXCEPT !.model_performance[model_name] =
                 LastN(Append(@, pnl), PerformanceCap)],
             model_name, RLt(R(0), pnl), RMin(RMul(RAbs(pnl), R(10)), R(1)))

-----------------------------------------------------------------------------
(* trading_system.py                                                       *)

\* FeatureSet.get
feature_get(features, name, default) ==
    IF name \in DOMAIN features THEN features[name] ELSE default

CrisisVol == Rat(50, 100)
MeanRevertingHurst == Rat(45, 100)

\* TradingSystem.detect_regime
detect_regime(features) ==
    LET vol == feature_get(features, "realized_vol_20", Rat(15, 100))
        vol_regime == feature_get(features, "vol_regime", R(1))
        trend_regime == feature_get(features, "trend_regime", R(0))
        hurst == feature_get(features, "hurst", Rat(5, 10))
    IN  IF RLt(CrisisVol, vol) THEN "crisis"
        ELSE IF trend_regime = R(1)
             THEN IF RLt(R(0), feature_get(features, "momentum_20", R(0)))
                  THEN "trending_up" ELSE "trending_down"
        ELSE IF RLt(hurst, MeanRevertingHurst) THEN "mean_reverting"
        ELSE IF vol_regime = R(0) THEN "low_volatility"
        ELSE IF vol_regime = R(2) THEN "high_volatility"
        ELSE "normal"

min_trade_interval_seconds == 60
MinBars == 50
DecisionLogCap == 10000

\* The features, the regime and the models' signals of one iteration are
\* inputs of the model: inp = [regime, ewma_vol, combined_signal, signals].

\* the interval gate without its force flag
IntervalGateForced(ltt, symbol, force, t) ==
    /\ symbol \in DOMAIN ltt
    /\ t - ltt[symbol] < min_trade_interval_seconds

\* the interval gate of trading_iteration (lines 235-238)
IntervalGate(ltt, symbol, force, t) ==
    /\ ~force
    /\ symbol \in DOMAIN ltt
    /\ t - ltt[symbol] < min_trade_interval_seconds

\* the bar-count gate of trading_iteration (lines 241-244)
BarsGate(bars, symbol) == symbol \notin DOMAIN bars \/ bars[symbol] < MinBars

\* the risk step of trading_iteration (lines 273-277): the result of the risk
\* check and the risk state the iteration leaves
RiskStep(risk, target_position, nav_now, current_vol) ==
    LET risk_check == check_limits(risk, target_position, "", R(0), current_vol)
    IN  [risk_check |-> risk_check, risk |-> update_nav(risk, nav_now)]

\* trading_iteration's test before it sizes and creates an order (line 280)
ShouldTradeIgnoringRisk(risk_check, combined_signal) == is_active(combined_signal)

ShouldTrade(risk_check, combined_signal) ==
    risk_check.approved /\ is_active(combined_signal)

\* a trim of the decision log that keeps the oldest entries
kept_logs_oldest(logs) ==
    IF Len(logs) <= DecisionLogCap THEN logs ELSE SubSeq(logs, 1, DecisionLogCap)

\* the trim of the decision log (lines 306-308)
kept_logs(logs) == LastN(logs, DecisionLogCap)

\* the end of trading_iteration (lines 292-310): the DecisionLog is built,
\* appended and returned
LogDecision(S, symbol, inp, t, target_position, current_qty, step, order) ==
    LET log == [timestamp |-> t, symbol |-> symbol,
                features |-> [ewma_vol |-> inp.ewma_vol], signals |-> inp.signals,
                regime |-> inp.regime, position_before |-> current_qty,
                position_after |-> IF step.risk_check.approved
                                   THEN target_position.num_units ELSE current_qty,
                order |-> order, model_version |-> "1.0.0"]
    IN  [rm |-> step.risk,
         last_trade_time |-> IF order # NoneValue
                             THEN Put(S.last_trade_time, symbol, t)
                             ELSE S.last_trade_time,
         decision_logs |-> kept_logs(Append(S.decision_logs, log)),
         risk_check |-> step.risk_check,
         result |-> log]

\* the order of trading_iteration (lines 279-290)
GenerateOrder(S, symbol, inp, t, target_position, current_qty, step) ==
    LogDecision(S, symbol, inp, t, target_position, current_qty, step,
        IF ShouldTrade(step.risk_check, inp.combined_signal)
        THEN create_order(symbol,
                 scale_for_risk(step.risk, target_position,
                                RAbs(inp.combined_signal.value)),
                 current_qty, S.close[symbol], inp.regime, t)
        ELSE NoneValue)

\* trading_iteration from the sized target on (lines 269-310)
CheckAndTrade(S, symbol, inp, t, target_position) ==
    GenerateOrder(S, symbol, inp, t, target_position,
        IF symbol \in DOMAIN S.portfolio.positions
        THEN S.portfolio.positions[symbol].quantity ELSE R(0),
        RiskStep(S.rm, target_position, nav(S.portfolio), inp.ewma_vol))

\* TradingSystem.trading_iteration on the system state
\* S = [rm, portfolio, bars, close, last_trade_time, decision_logs]:
\* the state it leaves, the DecisionLog it returns (or None) in result, and
\* the outcome of its risk check in risk_check
trading_iteration(S, symbol, force, inp, t) ==
    IF IntervalGate(S.last_trade_time, symbol, force, t) \/ BarsGate(S.bars, symbol)
    THEN [rm |-> S.rm, last_trade_time |-> S.last_trade_time,
          decision_logs |-> S.decision_logs, risk_check |-> NoneValue,
          result |-> NoneValue]
    ELSE CheckAndTrade(S, symbol, inp, t,
             size_position(inp.combined_signal, inp.ewma_vol,
                           nav(S.portfolio), S.close[symbol]))

\* run_async before it is called: not started, no pass made
RunInit == [pc |-> "idle", iteration |-> 0, max_iterations |-> <<>>, passes |-> 0]

\* run_async's break test (line 384): `max_iterations and iteration >=
\* max_iterations`, where None (<<>>) and 0 (<<0>>) are both falsy
reached_max(max_iterations, iteration) ==
    /\ max_iterations # <<>>
    /\ max_iterations[1] # 0
    /\ iteration >= max_iterations[1]

\* the loop of run_async goes into another pass (lines 383-385)
starts_pass(running, max_iterations, iteration) ==
    running /\ ~reached_max(max_iterations, iteration)

\* the alpha models in the order _init_models inserts them
ModelOrder == <<"momentum", "mean_reversion", "volatility_breakout">>

ModelIndex(name) == CHOOSE i \in 1..Len(ModelOrder) : ModelOrder[i] = name

\* close_position's best_model: max over the log's signals by |value|, the
\* first of the strongest in dict order
best_model(signals) ==
    LET strongest == {n \in DOMAIN signals :
                        \A m \in DOMAIN signals :
                            RLe(RAbs(signals[m].value), RAbs(signals[n].value))}
    IN  CHOOSE n \in strongest : \A m \in strongest : ModelIndex(n) <= ModelIndex(m)

\* TradingSystem._find_recent_log: the newest log of the symbol younger than
\* max_age_minutes, or none
max_age_minutes == 60

recent_logs(logs, symbol, t) ==
    {i \in 1..Len(logs) :
        logs[i].symbol = symbol /\ logs[i].timestamp > t - max_age_minutes * 60}

_find_recent_log(logs, symbol, t) ==
    LET recent == recent_logs(logs, symbol, t)
    IN  IF recent = {} THEN NoneValue
        ELSE logs[CHOOSE i \in recent : \A j \in recent : j <= i]

-----------------------------------------------------------------------------
(* State machine                                                           *)

Symbols == {"BTC"}
Sides == {"buy", "sell"}

Init ==
    /\ now = 0
    /\ rm = RiskStateInit
    /\ cash = PortfolioInit.cash
    /\ positions = PortfolioInit.positions
    /\ trade_history = PortfolioInit.trade_history
    /\ orders = EngineInit.orders
    /\ completed_orders = EngineInit.completed_orders
    /\ slippage_history = EngineInit.slippage_history
    /\ fill_callbacks = EngineInit.callbacks
    /\ nbars = EmptyDict
    /\ last_close = EmptyDict
    /\ last_trade_time = EmptyDict
    /\ decision_logs = <<>>
    /\ performance = TrackerInit
    /\ models = SelectorInit
    /\ drift_detector = DriftDetectorInit
    /\ learner = LearnerInit
    /\ ensemble = EnsembleInit
    /\ is_running = FALSE
    /\ run = RunInit
    /\ _data = FeatureEngineInit.data
    /\ _cache = FeatureEngineInit.cache
    /\ last_call = [op |-> "__init__"]

\* the clock advances
TickSeconds == 60
MaxTime == 60

Tick ==
    /\ now < MaxTime
    /\ now' = now + TickSeconds
    /\ UNCHANGED <<riskVars, portfolioVars, executionVars, systemVars,
                   monitoringVars, featureVars, last_call>>

---- (* RiskManager *)

NavInputs == {R(94500), R(100000), R(105000)}
PnlInputs == {R(-2000), R(1000)}
MaxDailyPnl == 2000
Urgencies == {R(0), Rat(1, 2), R(1)}
Reasons == {<<"Test", "activation">>}
Authorizations == {"", "ops-approved"}

\* a proposed position of pct of a NAV of 100000 at price 100
Proposed(pct) ==
    PositionSize(pct, RMul(pct, R(100000)), RMul(pct, R(1000)), R(1), R(1), FALSE)

\* a position the sizer has already capped
ProposedCapped(pct) == [Proposed(pct) EXCEPT !.capped = TRUE]

ProposedPositions ==
    {Proposed(Rat(-1, 4)), Proposed(Rat(-1, 10)), Proposed(Rat(1, 5)), Proposed(Rat(1, 4)),
     ProposedCapped(Rat(1, 5))}
Sectors == {"", "tech"}
DailyVolumes == {R(0), R(500000)}
Vols == {Rat(15, 100), Rat(50, 100)}

RiskFrame ==
    UNCHANGED <<now, portfolioVars, executionVars, systemVars, monitoringVars, featureVars>>

UpdateNav(n) ==
    /\ rm' = update_nav(rm, n)
    /\ last_call' = [op |-> "update_nav", nav |-> n]
    /\ RiskFrame

UpdatePnl(pnl) ==
    /\ RLe(RAbs(RAdd(rm.daily_pnl, pnl)), R(MaxDailyPnl))
    /\ rm' = update_pnl(rm, pnl)
    /\ last_call' = [op |-> "update_pnl", pnl |-> pnl]
    /\ RiskFrame

ResetDailyMetrics ==
    /\ rm' = reset_daily_metrics(rm)
    /\ last_call' = [op |-> "reset_daily_metrics"]
    /\ RiskFrame

CheckLimits(pos, sector, daily_volume, current_vol) ==
    /\ last_call' = [op |-> "check_limits", position |-> pos,
                     result |-> check_limits(rm, pos, sector, daily_volume, current_vol)]
    /\ UNCHANGED rm
    /\ RiskFrame

ScaleForRisk(pos, urgency) ==
    /\ last_call' = [op |-> "scale_for_risk", position |-> pos, urgency |-> urgency,
                     result |-> scale_for_risk(rm, pos, urgency)]
    /\ UNCHANGED rm
    /\ RiskFrame

ActivateKillSwitch(reason) ==
    /\ rm' = _activate_kill_switch(rm, reason)
    /\ last_call' = [op |-> "_activate_kill_switch", reason |-> reason]
    /\ RiskFrame

ResetKillSwitch(authorization) ==
    /\ rm' = reset_kill_switch(rm, authorization)
    /\ last_call' = [op |-> "reset_kill_switch", authorization |-> authorization]
    /\ RiskFrame

RiskNext ==
    \/ \E n \in NavInputs : UpdateNav(n)
    \/ \E pnl \in PnlInputs : UpdatePnl(pnl)
    \/ ResetDailyMetrics
    \/ \E pos \in ProposedPositions, sector \in Sectors,
          dv \in DailyVolumes, vol \in Vols : CheckLimits(pos, sector, dv, vol)
    \/ \E pos \in ProposedPositions, u \in Urgencies : ScaleForRisk(pos, u)
    \/ \E reason \in Reasons : ActivateKillSwitch(reason)
    \/ \E a \in Authorizations : ResetKillSwitch(a)

SpecRisk == Init /\ [][RiskNext]_vars

\* A RiskManager that is only fed a NAV series: the samples of SpecRisk, a
\* NAV of zero and the NAV of a leveraged book that has lost more than its
\* equity.  The call record keeps the samples fed so far.
NavSeriesInputs == NavInputs \cup {R(0), R(-5000)}

UpdateNavSeries(n) ==
    /\ rm' = update_nav(rm, n)
    /\ last_call' = [op |-> "update_nav", nav |-> n,
                     seen |-> (IF "seen" \in DOMAIN last_call
                               THEN last_call.seen ELSE {}) \cup {n}]
    /\ RiskFrame

NavNext == \E n \in NavSeriesInputs : UpdateNavSeries(n)

SpecNav == Init /\ [][NavNext]_vars

---- (* PortfolioManager *)

Quantities == {R(1), R(2)}
Prices == {R(100), R(110)}
MaxTrades == 2

Portfolio == [cash |-> cash, positions |-> positions, trade_history |-> trade_history]

SetPortfolio(P) ==
    /\ cash' = P.cash
    /\ positions' = P.positions
    /\ trade_history' = P.trade_history

\* the record of a portfolio call: its arguments, the ledger before it, its
\* result, and the call before it
PortfolioCall(op, symbol, quantity, price, side, result) ==
    [op |-> op, symbol |-> symbol, quantity |-> quantity, price |-> price,
     side |-> side, result |-> result, at |-> now,
     before |-> [cash |-> cash, positions |-> positions],
     prev |-> IF "before" \in DOMAIN last_call
              THEN [last_call EXCEPT !.prev = NoneValue] ELSE NoneValue]

PortfolioFrame ==
    UNCHANGED <<now, riskVars, executionVars, systemVars, monitoringVars, featureVars>>

OpenPositionCall(symbol, quantity, price, side) ==
    /\ SetPortfolio(open_position(Portfolio, symbol, quantity, price, side, now))
    /\ last_call' = PortfolioCall("open_position", symbol, quantity, price, side, NoneValue)
    /\ PortfolioFrame

OpenPosition(symbol, quantity, price, side) ==
    /\ Len(trade_history) < MaxTrades
    /\ OpenPositionCall(symbol, quantity, price, side)

ClosePosition(symbol, price) ==
    /\ Len(trade_history) < MaxTrades
    /\ SetPortfolio(close_position(Portfolio, symbol, price, now))
    /\ last_call' = PortfolioCall("close_position", symbol, R(0), price, "close",
                                  close_position_result(Portfolio, symbol, price))
    /\ PortfolioFrame

UpdatePrice(symbol, price) ==
    /\ SetPortfolio(update_price(Portfolio, symbol, price))
    /\ last_call' = PortfolioCall("update_price", symbol, R(0), price, "none", NoneValue)
    /\ PortfolioFrame

PortfolioNext ==
    \/ \E sym \in Symbols, q \in Quantities, p \in Prices, side \in Sides :
          OpenPosition(sym, q, p, side)
    \/ \E sym \in Symbols, p \in Prices : ClosePosition(sym, p)
    \/ \E sym \in Symbols, p \in Prices : UpdatePrice(sym, p)
    \/ Tick

SpecPortfolio == Init /\ [][PortfolioNext]_vars

---- (* PortfolioManager: successive fills *)

ReversalQuantities == {R(1), R(2), R(4)}
MaxReversalTrades == 3

ReversalNext ==
    \E sym \in Symbols, q \in ReversalQuantities, p \in Prices, side \in Sides :
        /\ Len(trade_history) < MaxReversalTrades
        /\ OpenPositionCall(sym, q, p, side)

SpecReversal == Init /\ [][ReversalNext]_vars

---- (* ExecutionEngine *)

\* the TradeOrder a caller holds, by client_order_id
MarketOrder(id, side, quantity) ==
    [symbol |-> "BTC", side |-> side, order_type |-> "market", quantity |-> quantity,
     client_order_id |-> id, metadata |-> EmptyDict]

OrderPool == [id \in {"ord_a"} |-> MarketOrder(id, "buy", R(2))]
OrderIds == DOMAIN OrderPool
FillIds == OrderIds \cup {"ord_unknown"}
FillQuantities == {R(1), R(2)}
MidPrices == {R(100)}
MaxOrders == 2
MaxFillCalls == 2

Engine == [orders |-> orders, completed_orders |-> completed_orders,
           slippage_history |-> slippage_history, callbacks |-> fill_callbacks]

SetEngine(E) ==
    /\ orders' = E.orders
    /\ completed_orders' = E.completed_orders
    /\ slippage_history' = E.slippage_history
    /\ fill_callbacks' = E.callbacks

ExecutionFrame ==
    UNCHANGED <<now, riskVars, portfolioVars, systemVars, monitoringVars, featureVars>>

\* a caller sets engine._on_fill and engine._on_complete
SetCallbacks ==
    /\ ~fill_callbacks.registered
    /\ fill_callbacks' = [fill_callbacks EXCEPT !.registered = TRUE]
    /\ last_call' = [op |-> "set_callbacks"]
    /\ UNCHANGED <<orders, completed_orders, slippage_history>>
    /\ ExecutionFrame

Submit(order_id, mid_price) ==
    /\ Len(completed_orders) + Cardinality(DOMAIN orders \cup {order_id}) <= MaxOrders
    /\ SetEngine(submit(Engine, OrderPool[order_id], mid_price, now))
    /\ last_call' = [op |-> "submit", order_id |-> order_id, result |-> order_id]
    /\ ExecutionFrame

RecordFill(order_id, fill_quantity, fill_price) ==
    /\ fill_callbacks.fill_calls < MaxFillCalls
    /\ SetEngine(record_fill(Engine, order_id, fill_quantity, fill_price, now))
    /\ last_call' = [op |-> "record_fill", order_id |-> order_id,
                     fill_quantity |-> fill_quantity, fill_price |-> fill_price,
                     known |-> order_id \in DOMAIN orders]
    /\ ExecutionFrame

CancelOrder(order_id) ==
    /\ SetEngine(cancel_order(Engine, order_id))
    /\ last_call' = [op |-> "cancel_order", order_id |-> order_id,
                     result |-> cancel_order_result(Engine, order_id)]
    /\ ExecutionFrame

ExecutionNext ==
    \/ SetCallbacks
    \/ \E id \in OrderIds, p \in MidPrices : Submit(id, p)
    \/ \E id \in FillIds, q \in FillQuantities, p \in Prices : RecordFill(id, q, p)
    \/ \E id \in FillIds : CancelOrder(id)

SpecExecution == Init /\ [][ExecutionNext]_vars

---- (* ExecutionEngine: create_order *)

TargetUnits == {R(-600), R(-1), R(0), Rat(1, 2), R(1), R(2), R(500), R(600)}
HeldUnits == {R(-1), R(0), R(1), R(2)}
OrderPrices == {R(50), R(99), R(100)}
OrderRegimes == {"normal", "high_volatility"}

\* a target of the given number of units, as the sizer and the risk scaling
\* hand it over
TargetOf(units, price) ==
    PositionSize(RDiv(RMul(units, price), R(initial_capital)), RMul(units, price),
                 units, R(1), R(RSign(units)), FALSE)

CreateOrder(symbol, units, current_position, current_price, regime) ==
    /\ last_call' = [op |-> "create_order", symbol |-> symbol, units |-> units,
                     current_position |-> current_position,
                     current_price |-> current_price, regime |-> regime,
                     result |-> create_order(symbol, TargetOf(units, current_price),
                                             current_position, current_price,
                                             regime, now)]
    /\ UNCHANGED <<now, riskVars, portfolioVars, executionVars, systemVars,
                   monitoringVars, featureVars>>

OrdersNext ==
    \E s \in Symbols, units \in TargetUnits, held \in HeldUnits,
       p \in OrderPrices, regime \in OrderRegimes :
        CreateOrder(s, units, held, p, regime)

SpecOrders == Init /\ [][OrdersNext]_vars

---- (* VolatilityTargetedSizer *)

SizerSignals ==
    {AlphaSignal(R(1), R(1)), AlphaSignal(R(-1), R(1)), AlphaSignal(Rat(1, 2), R(1)),
     AlphaSignal(R(1), Rat(1, 2)), AlphaSignal(Rat(1, 100), R(1))}
\* volatilities below the floor, at twice and once the target, and above
SizerVols == {Rat(3, 100), Rat(3, 40), Rat(15, 100), Rat(30, 100), Rat(3, 2)}
SizerNavs == {R(50000), R(100000)}
SizerPrices == {R(0), R(50), R(100)}

SizePosition(signal, asset_vol, nav_now, current_price) ==
    /\ last_call' = [op |-> "size_position", signal |-> signal, asset_vol |-> asset_vol,
                     nav |-> nav_now, current_price |-> current_price,
                     result |-> size_position(signal, asset_vol, nav_now, current_price)]
    /\ UNCHANGED <<now, riskVars, portfolioVars, executionVars, systemVars,
                   monitoringVars, featureVars>>

SizerNext ==
    \E signal \in SizerSignals, vol \in SizerVols, n \in SizerNavs, p \in SizerPrices :
        SizePosition(signal, vol, n, p)

SpecSizer == Init /\ [][SizerNext]_vars

---- (* TWAPAlgorithm *)

TotalQuantities == {R(0), R(1), Rat(7, 2), R(10)}
MaxSlices == 3
SliceCounts == 1..MaxSlices
DurationMinutes == {1, 60}
StartTimes == {R(0), R(60)}
\* np.random.uniform(0.9, 1.1) and the offset as a fraction of its range
SizeDraws == {Rat(9, 10), R(1), Rat(109, 100)}
OffsetDraws == {R(-1), Rat(1, 2)}
Draws == [size : SizeDraws, offset : OffsetDraws]

\* generate_schedule reads and writes no state: one call per behaviour
GenerateSchedule(self, total_quantity, start_time, draws) ==
    /\ last_call.op # "generate_schedule"
    /\ last_call' = [op |-> "generate_schedule", num_slices |-> self.num_slices,
                     duration_minutes |-> self.duration_minutes,
                     randomize_timing |-> self.randomize_timing,
                     total_quantity |-> total_quantity, start_time |-> start_time,
                     result |-> generate_schedule(self, total_quantity, start_time,
                                                  NoneValue, draws)]
    /\ UNCHANGED <<now, riskVars, portfolioVars, executionVars, systemVars,
                   monitoringVars, featureVars>>

TwapNext ==
    \E n \in SliceCounts, d \in DurationMinutes, randomize \in BOOLEAN,
       q \in TotalQuantities, start \in StartTimes :
        \E draws \in [1..n -> Draws] :
            GenerateSchedule(TWAPAlgorithm(d, n, randomize), q, start, draws)

SpecTwap == Init /\ [][TwapNext]_vars

---- (* TradingSystem *)

SystemSymbols == Symbols
FillSides == {"buy"}
SystemPrices == {R(50), R(100)}
FilledUnits == {R(200)}
FillPrices == {R(100)}
BatchSizes == {49, 50}
\* the buffer lengths the feed is followed to
BarCounts == {50}
MaxLogs == 2
MaxFills == 1

\* what the feature engine, the regime detector and the ensemble hand to one
\* iteration: a long signal at full confidence in a normal regime
IterationInputs ==
    {[regime |-> "normal", ewma_vol |-> Rat(15, 100),
      combined_signal |-> AlphaSignal(R(v), R(IAbs(v))),
      signals |-> [momentum |-> AlphaSignal(R(v), R(IAbs(v)))]] : v \in {1}}

Min(a, b) == IF a <= b THEN a ELSE b

\* TradingSystem.update_market_data: FeatureEngine.update, then
\* PortfolioManager.update_price
UpdateMarketData(symbol, close) ==
    /\ nbars' = Put(nbars, symbol,
                    IF symbol \in DOMAIN nbars
                    THEN Min(nbars[symbol] + 1, max_history) ELSE 1)
    /\ nbars'[symbol] \in BarCounts
    /\ last_close' = Put(last_close, symbol, close)
    /\ SetPortfolio(update_price(Portfolio, symbol, close))
    /\ last_call' = [op |-> "update_market_data", symbol |-> symbol, close |-> close]
    /\ UNCHANGED <<now, riskVars, executionVars, last_trade_time, decision_logs,
                   monitoringVars, featureVars>>

\* TradingSystem.update_batch with a frame of n bars whose last close is close
UpdateBatch(symbol, n, close) ==
    /\ nbars' = Put(nbars, symbol, Min(n, max_history))
    /\ last_close' = IF n > 0 THEN Put(last_close, symbol, close)
                     ELSE Del(last_close, symbol)
    /\ SetPortfolio(IF n > 0 THEN update_price(Portfolio, symbol, close) ELSE Portfolio)
    /\ last_call' = [op |-> "update_batch", symbol |-> symbol, n |-> n, close |-> close]
    /\ UNCHANGED <<now, riskVars, executionVars, last_trade_time, decision_logs,
                   monitoringVars, featureVars>>

SystemState ==
    [rm |-> rm, portfolio |-> Portfolio, bars |-> nbars, close |-> last_close,
     last_trade_time |-> last_trade_time, decision_logs |-> decision_logs]

TradingIterationCall(symbol, force, inp) ==
    LET out == trading_iteration(SystemState, symbol, force, inp, now)
    IN  /\ rm' = out.rm
        /\ last_trade_time' = out.last_trade_time
        /\ decision_logs' = out.decision_logs
        /\ last_call' = [op |-> "trading_iteration", symbol |-> symbol, force |-> force,
                         inp |-> inp,
                         kill_before |-> rm.kill_switch_active,
                         open_before |-> DOMAIN orders,
                         risk_check |-> out.risk_check, result |-> out.result]
        /\ UNCHANGED <<now, portfolioVars, executionVars, nbars, last_close,
                       monitoringVars, featureVars>>

TradingIteration(symbol, force, inp) ==
    /\ Len(decision_logs) < MaxLogs
    /\ TradingIterationCall(symbol, force, inp)

\* TradingSystem.record_fill: PortfolioManager.open_position
SystemRecordFillCall(symbol, quantity, price, side) ==
    /\ SetPortfolio(open_position(Portfolio, symbol, quantity, price, side, now))
    /\ last_call' = [op |-> "system.record_fill", symbol |-> symbol,
                     quantity |-> quantity, price |-> price, side |-> side]
    /\ PortfolioFrame

SystemRecordFill(symbol, quantity, price, side) ==
    /\ Len(trade_history) < MaxFills
    /\ SystemRecordFillCall(symbol, quantity, price, side)

\* The risk manager's kill switch can also be latched by its owner
\* (ActivateKillSwitch); the engine's orders are submitted as in SpecExecution.
SystemNext ==
    \/ Tick
    \/ \E s \in SystemSymbols, c \in SystemPrices : UpdateMarketData(s, c)
    \/ \E s \in SystemSymbols, n \in BatchSizes, c \in SystemPrices : UpdateBatch(s, n, c)
    \/ \E s \in SystemSymbols, f \in BOOLEAN, inp \in IterationInputs :
          TradingIteration(s, f, inp)
    \/ \E s \in SystemSymbols, q \in FilledUnits, p \in FillPrices, side \in FillSides :
          SystemRecordFill(s, q, p, side)
    \/ ActivateKillSwitch(<<"manual">>)
    \/ \E id \in OrderIds, p \in MidPrices : Submit(id, p)

SpecSystem == Init /\ [][SystemNext]_vars

---- (* TradingSystem: the trade interval *)

IntervalSymbols == {"BTC", "ETH"}
HalfInterval == 30

\* the iteration inputs of SpecSystem and a null ensemble signal
IntervalInputs ==
    IterationInputs \cup
    {[regime |-> "normal", ewma_vol |-> Rat(15, 100),
      combined_signal |-> AlphaSignal(R(0), R(0)),
      signals |-> [momentum |-> AlphaSignal(R(0), R(0))]]}

\* the clock advances by half the trade interval
IntervalTick ==
    /\ now < MaxTime
    /\ now' = now + HalfInterval
    /\ UNCHANGED <<riskVars, portfolioVars, executionVars, systemVars,
                   monitoringVars, featureVars, last_call>>

IntervalNext ==
    \/ IntervalTick
    \/ \E s \in IntervalSymbols : UpdateBatch(s, MinBars, R(100))
    \/ \E s \in IntervalSymbols, f \in BOOLEAN, inp \in IntervalInputs :
          TradingIteration(s, f, inp)

SpecInterval == Init /\ [][IntervalNext]_vars

---- (* FeatureEngine *)

BarCloses == {R(100), R(110)}
BarVolumes == {R(1), R(2)}
MaxBars == 3

FeatureEngine == [data |-> _data, cache |-> _cache]

SetFeatureEngine(F) ==
    /\ _data' = F.data
    /\ _cache' = F.cache

FeatureFrame ==
    UNCHANGED <<now, riskVars, portfolioVars, executionVars, systemVars, monitoringVars>>

\* the snapshot times a caller asks for: none, or a bar time up to the clock
BarTimes == {t \in {0, TickSeconds} : t <= now}
SnapshotTimes == {<<>>} \cup {<<t>> : t \in BarTimes}

\* FeatureEngine.update with a bar stamped timestamp
FeatureUpdateAt(symbol, timestamp, close, volume) ==
    /\ symbol \in DOMAIN _data => Len(_data[symbol]) < MaxBars
    /\ SetFeatureEngine(feature_update(FeatureEngine, symbol,
           [timestamp |-> timestamp, close |-> close, volume |-> volume]))
    /\ last_call' = [op |-> "feature_update", symbol |-> symbol,
                     cached_before |-> DOMAIN _cache]
    /\ FeatureFrame

\* the market-data feed delivers a bar stamped with the clock
FeatureUpdate(symbol, close, volume) == FeatureUpdateAt(symbol, now, close, volume)

\* FeatureEngine.update_batch
FeatureUpdateBatch(symbol, ohlcv) ==
    /\ SetFeatureEngine(feature_update_batch(FeatureEngine, symbol, ohlcv))
    /\ last_call' = [op |-> "feature_update_batch", symbol |-> symbol,
                     cached_before |-> DOMAIN _cache]
    /\ FeatureFrame

GetFeatures(symbol, timestamp) ==
    LET out == get_features(FeatureEngine, symbol, timestamp, now)
    IN  /\ SetFeatureEngine(out.engine)
        /\ last_call' = [op |-> "get_features", symbol |-> symbol,
                         timestamp |-> timestamp, result |-> out.result]
        /\ FeatureFrame

FeaturesNext ==
    \/ Tick
    \/ \E s \in Symbols, c \in BarCloses, v \in BarVolumes : FeatureUpdate(s, c, v)
    \/ \E s \in Symbols, t \in SnapshotTimes : GetFeatures(s, t)

SpecFeatures == Init /\ [][FeaturesNext]_vars

---- (* FeatureEngine: two symbols *)

CacheSymbols == {"BTC", "ETH"}

Bar(timestamp, close, volume) ==
    [timestamp |-> timestamp, close |-> close, volume |-> volume]

\* the frames update_batch is given: an empty one and one of two bars
Batches == {<<>>, <<Bar(0, R(100), R(1)), Bar(0, R(110), R(2))>>}

CacheNext ==
    \/ \E s \in CacheSymbols, c \in BarCloses : FeatureUpdate(s, c, R(1))
    \/ \E s \in CacheSymbols, b \in Batches : FeatureUpdateBatch(s, b)
    \/ \E s \in CacheSymbols : GetFeatures(s, <<>>)

SpecCache == Init /\ [][CacheNext]_vars

---- (* FeatureEngine: the market-data feed *)

\* the timestamps the feed puts on its bars
BarStamps == {0, TickSeconds}

FeedNext ==
    \E s \in Symbols, ts \in BarStamps, c \in BarCloses, v \in BarVolumes :
        FeatureUpdateAt(s, ts, c, v)

SpecFeed == Init /\ [][FeedNext]_vars

---- (* TradingSystem: a long run *)

\* the entries the log holds when the run is picked up
PriorEntries == 9999

HoldSignal == AlphaSignal(R(0), R(0))

\* the log of an earlier iteration that held: no signal, no order
PriorLog(i) ==
    [timestamp |-> i - PriorEntries - 1, symbol |-> "BTC",
     features |-> [ewma_vol |-> Rat(15, 100)],
     signals |-> [momentum |-> HoldSignal],
     regime |-> "normal", position_before |-> R(0), position_after |-> R(0),
     order |-> NoneValue, model_version |-> "1.0.0"]

\* the system after PriorEntries forced iterations that all held, on a
\* buffer of MinBars bars
InitLongRun ==
    /\ now = 0
    /\ rm = update_nav(RiskStateInit, nav(PortfolioInit))
    /\ cash = PortfolioInit.cash
    /\ positions = PortfolioInit.positions
    /\ trade_history = PortfolioInit.trade_history
    /\ orders = EngineInit.orders
    /\ completed_orders = EngineInit.completed_orders
    /\ slippage_history = EngineInit.slippage_history
    /\ fill_callbacks = EngineInit.callbacks
    /\ nbars = [s \in SystemSymbols |-> MinBars]
    /\ last_close = [s \in SystemSymbols |-> R(100)]
    /\ last_trade_time = EmptyDict
    /\ decision_logs = [i \in 1..PriorEntries |-> PriorLog(i)]
    /\ performance = TrackerInit
    /\ models = SelectorInit
    /\ drift_detector = DriftDetectorInit
    /\ learner = LearnerInit
    /\ ensemble = EnsembleInit
    /\ is_running = FALSE
    /\ run = RunInit
    /\ _data = FeatureEngineInit.data
    /\ _cache = FeatureEngineInit.cache
    /\ last_call = [op |-> "__init__"]

\* the inputs of SpecSystem, a hold and a short in a volatile market
LongRunInputs ==
    IterationInputs \cup
    {[regime |-> "normal", ewma_vol |-> Rat(15, 100), combined_signal |-> HoldSignal,
      signals |-> [momentum |-> HoldSignal]],
     [regime |-> "high_volatility", ewma_vol |-> Rat(30, 100),
      combined_signal |-> AlphaSignal(R(-1), R(1)),
      signals |-> [momentum |-> AlphaSignal(R(-1), R(1))]]}

\* the clock of the long run: half a trade interval per step
LongRunTick ==
    /\ now < TickSeconds
    /\ now' = now + HalfInterval
    /\ UNCHANGED <<riskVars, portfolioVars, executionVars, systemVars,
                   monitoringVars, featureVars, last_call>>

\* at most one logged iteration is followed per clock reading
LongRunNext ==
    \/ LongRunTick
    \/ \E s \in SystemSymbols, f \in BOOLEAN, inp \in LongRunInputs :
          /\ decision_logs[Len(decision_logs)].timestamp < now
          /\ TradingIterationCall(s, f, inp)

SpecLongRun == InitLongRun /\ [][LongRunNext]_vars

---- (* TradingSystem: the regime and the ensemble *)

\* the features one iteration reads, as the feature engine may hand them over
Features(vol, trend_regime, momentum, hurst, vol_regime) ==
    [name \in {"realized_vol_20", "trend_regime", "momentum_20", "hurst",
               "vol_regime", "ewma_vol"} |->
        CASE name = "realized_vol_20" -> vol
          [] name = "trend_regime" -> trend_regime
          [] name = "momentum_20" -> momentum
          [] name = "hurst" -> hurst
          [] name = "vol_regime" -> vol_regime
          [] name = "ewma_vol" -> Rat(15, 100)]

RegimeFeatures ==
    {EmptyDict,
     Features(Rat(50, 100), R(0), R(0), Rat(5, 10), R(1)),
     Features(Rat(51, 100), R(1), Rat(1, 10), Rat(5, 10), R(1)),
     Features(Rat(60, 100), R(0), R(0), Rat(4, 10), R(2)),
     Features(Rat(15, 100), R(1), Rat(1, 10), Rat(5, 10), R(1)),
     Features(Rat(15, 100), R(1), Rat(-1, 10), Rat(5, 10), R(1)),
     Features(Rat(15, 100), R(0), R(0), Rat(4, 10), R(1)),
     Features(Rat(15, 100), R(0), R(0), Rat(5, 10), R(0)),
     Features(Rat(15, 100), R(0), R(0), Rat(5, 10), R(2))}

\* what the three alpha models may signal
ModelSignals ==
    {[name \in AlphaModelNames |-> AlphaSignal(R(0), R(0))],
     [name \in AlphaModelNames |-> AlphaSignal(R(1), R(1))],
     [name \in AlphaModelNames |-> AlphaSignal(R(-1), Rat(1, 2))],
     Weights(AlphaSignal(R(1), R(1)), AlphaSignal(R(-1), Rat(1, 20)),
             AlphaSignal(Rat(1, 2), Rat(1, 10)))}

\* trading_iteration lines 246-263: the regime is detected from the features
\* and the ensemble combines the models' signals under it
IterationInput(features, signals) ==
    [features |-> features,
     regime |-> detect_regime(features),
     ewma_vol |-> feature_get(features, "ewma_vol", Rat(15, 100)),
     combined_signal |-> generate_combined_signal(signals, detect_regime(features)),
     signals |-> signals]

MaxRegimeLogs == 1

EnsembleNext ==
    \/ \E s \in SystemSymbols, n \in BarCounts, c \in FillPrices : UpdateBatch(s, n, c)
    \/ \E s \in SystemSymbols, q \in FilledUnits, p \in FillPrices, side \in FillSides :
          SystemRecordFill(s, q, p, side)
    \/ \E s \in SystemSymbols, features \in RegimeFeatures, signals \in ModelSignals :
          /\ Len(decision_logs) < MaxRegimeLogs
          /\ TradingIterationCall(s, TRUE, IterationInput(features, signals))

SpecEnsemble == Init /\ [][EnsembleNext]_vars

---- (* OnlineLearner *)

HalfWeekSeconds == 302400
MaxLearnerTime == 1209600
MaxSamples == 1001
MaxRetrains == 2

LearnerFrame ==
    UNCHANGED <<riskVars, portfolioVars, executionVars, systemVars,
                performance, models, drift_detector, ensemble, runVars, featureVars>>

LearnerTick ==
    /\ now < MaxLearnerTime
    /\ now' = now + HalfWeekSeconds
    /\ UNCHANGED <<learner, last_call>>
    /\ LearnerFrame

AddSample ==
    /\ learner.samples_since_retrain < MaxSamples
    /\ learner' = add_sample(learner)
    /\ last_call' = [op |-> "add_sample"]
    /\ UNCHANGED now
    /\ LearnerFrame

\* the driver retrains when should_retrain says so
TriggerRetrain(model_name) ==
    /\ Len(learner.retrain_history) < MaxRetrains
    /\ should_retrain(learner, now)
    /\ learner' = trigger_retrain(learner, model_name, now)
    /\ last_call' = [op |-> "trigger_retrain", model_name |-> model_name,
                     result |-> retrain_result(learner, model_name, now)]
    /\ UNCHANGED now
    /\ LearnerFrame

LearnerNext ==
    \/ LearnerTick
    \/ AddSample
    \/ TriggerRetrain("momentum")

SpecLearner == Init /\ [][LearnerNext]_vars

---- (* DriftDetector *)

DriftFeatures == {"ewma_vol", "momentum_20"}
\* what ks_2samp may return: (statistic, p_value)
KsOutcomes ==
    {<<Rat(1, 10), Rat(9, 10)>>, <<Rat(2, 5), Rat(873, 1000)>>,
     <<Rat(1, 5), Rat(1, 25)>>, <<Rat(1, 2), Rat(1, 100)>>}
DriftThresholds == {Rat(3, 10), Rat(1, 2)}
MaxTests == 3

DriftFrame ==
    UNCHANGED <<now, riskVars, portfolioVars, executionVars, systemVars,
                performance, models, learner, ensemble, runVars, featureVars>>

SetReference(feature_name) ==
    /\ drift_detector' = set_reference(drift_detector, feature_name)
    /\ last_call' = [op |-> "set_reference", feature_name |-> feature_name]
    /\ DriftFrame

TestKs(feature_name, statistic, p_value) ==
    /\ Len(drift_detector.drift_history) < MaxTests
    /\ drift_detector' = test_ks(drift_detector, feature_name, statistic, p_value, now)
    /\ last_call' = [op |-> "test_ks", feature_name |-> feature_name,
                     result |-> test_ks_result(drift_detector, feature_name,
                                               statistic, p_value, now)]
    /\ DriftFrame

DriftShouldRetrain(threshold) ==
    /\ last_call' = [op |-> "drift.should_retrain", threshold |-> threshold,
                     result |-> should_retrain_on_drift(drift_detector, threshold)]
    /\ UNCHANGED drift_detector
    /\ DriftFrame

DriftNext ==
    \/ \E f \in DriftFeatures : SetReference(f)
    \/ \E f \in DriftFeatures, ks \in KsOutcomes : TestKs(f, ks[1], ks[2])
    \/ \E threshold \in DriftThresholds : DriftShouldRetrain(threshold)

SpecDrift == Init /\ [][DriftNext]_vars

---- (* ModelSelector *)

OutcomePnls == {R(0), Rat(1, 200), R(1), R(-1)}
MaxOutcomes == 2

OutcomeNames == AlphaModelNames \cup {"ensemble"}

\* the names record_outcome was called with so far
SelectorCalls == IF last_call.op = "record_outcome" THEN last_call.calls ELSE <<>>

RecordOutcome(model_name, pnl, was_correct) ==
    /\ Len(SelectorCalls) < MaxOutcomes
    /\ models' = record_outcome(models, model_name, pnl, was_correct)
    /\ last_call' = [op |-> "record_outcome", model_name |-> model_name,
                     pnl |-> pnl, was_correct |-> was_correct,
                     calls |-> Append(SelectorCalls, model_name)]
    /\ UNCHANGED <<now, riskVars, portfolioVars, executionVars, systemVars,
                   performance, learningVars, runVars, featureVars>>

SelectorNext ==
    \E name \in OutcomeNames, pnl \in OutcomePnls, was_correct \in BOOLEAN :
        RecordOutcome(name, pnl, was_correct)

SpecSelector == Init /\ [][SelectorNext]_vars

---- (* TradingSystem: run_async and stop *)

MaxIterations == {<<0>>, <<1>>, <<2>>}
MaxPasses == 3

\* run_async from the top of its while loop to the next await, over the
\* symbols <<symbol>>: either one pass (trading_iteration, iteration += 1)
\* that ends in asyncio.sleep, or the return through finally
LoopFrom(running, max_iterations, iteration, symbol, inp) ==
    IF starts_pass(running, max_iterations, iteration)
    THEN LET out == trading_iteration(SystemState, symbol, FALSE, inp, now)
         IN  /\ run.passes < MaxPasses
             /\ rm' = out.rm
             /\ last_trade_time' = out.last_trade_time
             /\ decision_logs' = out.decision_logs
             /\ is_running' = running
             /\ run' = [pc |-> "sleep", iteration |-> iteration + 1,
                        max_iterations |-> max_iterations,
                        passes |-> run.passes + 1]
             /\ last_call' = [op |-> "run_async.pass", symbol |-> symbol,
                              result |-> out.result]
             /\ UNCHANGED <<now, portfolioVars, executionVars, nbars, last_close,
                            performance, models, learningVars, featureVars>>
    ELSE /\ is_running' = FALSE
         /\ run' = [pc |-> "done", iteration |-> iteration,
                    max_iterations |-> max_iterations, passes |-> run.passes]
         /\ last_call' = [op |-> "run_async.return"]
         /\ UNCHANGED <<now, riskVars, portfolioVars, executionVars, systemVars,
                        performance, models, learningVars, featureVars>>

\* run_async(symbols, interval_seconds, max_iterations) is called and runs
\* to its first await
RunAsync(max_iterations, symbol, inp) ==
    /\ run.pc = "idle"
    /\ LoopFrom(TRUE, max_iterations, 0, symbol, inp)

\* asyncio.sleep returns and the loop goes round
SleepDone(symbol, inp) ==
    /\ run.pc = "sleep"
    /\ LoopFrom(is_running, run.max_iterations, run.iteration, symbol, inp)

\* TradingSystem.stop
Stop ==
    /\ is_running' = FALSE
    /\ last_call' = [op |-> "stop"]
    /\ UNCHANGED <<now, riskVars, portfolioVars, executionVars, systemVars,
                   performance, models, learningVars, run, featureVars>>

RunNext ==
    \/ \E n \in MaxIterations, s \in SystemSymbols, inp \in IterationInputs :
          RunAsync(n, s, inp)
    \/ \E s \in SystemSymbols, inp \in IterationInputs : SleepDone(s, inp)
    \/ Stop
    \/ \E s \in SystemSymbols, c \in SystemPrices : UpdateBatch(s, MinBars, c)
    \/ Tick

SpecRun == Init /\ [][RunNext]_vars

---- (* AlphaEnsemble: Thompson Sampling *)

PerformancePnls == {R(-1), R(0), Rat(1, 20), R(1)}
PerformanceNames == AlphaModelNames \cup {"unknown"}
MaxPerformance == 3

\* the number of record_model_performance calls so far
PerformanceCalls == IF last_call.op = "record_model_performance" THEN last_call.calls ELSE 0

RecordModelPerformance(model_name, pnl) ==
    /\ PerformanceCalls < MaxPerformance
    /\ ensemble' = record_model_performance(ensemble, model_name, pnl)
    /\ last_call' = [op |-> "record_model_performance", model_name |-> model_name,
                     pnl |-> pnl, calls |-> PerformanceCalls + 1]
    /\ UNCHANGED <<now, riskVars, portfolioVars, executionVars, systemVars,
                   performance, models, drift_detector, learner, runVars, featureVars>>

ThompsonNext ==
    \E name \in PerformanceNames, pnl \in PerformancePnls :
        RecordModelPerformance(name, pnl)

SpecThompson == Init /\ [][ThompsonNext]_vars

---- (* TradingSystem: the fill feed *)

FeedQuantities == {R(100), R(200)}
FeedPrices == {R(100), R(110)}
MaxFeed == 2
MaxCloses == 2

\* the fill feed calls TradingSystem.record_fill
FillFeed(symbol, quantity, price, side) ==
    /\ Len(trade_history) < MaxFeed
    /\ SystemRecordFillCall(symbol, quantity, price, side)

\* TradingSystem.close_position: the portfolio closes the position, the
\* tracker records the trade and the risk manager adds the P&L to the day's;
\* when a decision log of the last hour names the symbol, the outcome is
\* credited to the model with the strongest signal in that log
SystemClosePosition(symbol, price) ==
    LET pnl == close_position_result(Portfolio, symbol, price)
        recent_log == _find_recent_log(decision_logs, symbol, now)
    IN  /\ Len(performance.trade_pnls) < MaxCloses
        /\ SetPortfolio(close_position(Portfolio, symbol, price, now))
        /\ performance' = record_trade(performance, pnl)
        /\ rm' = update_pnl(rm, pnl)
        /\ models' = IF recent_log = NoneValue THEN models
                     ELSE record_outcome(models, best_model(recent_log.signals),
                                         pnl, RLt(R(0), pnl))
        /\ ensemble' = IF recent_log = NoneValue THEN ensemble
                       ELSE record_model_performance(
                                ensemble, best_model(recent_log.signals), pnl)
        /\ last_call' = [op |-> "system.close_position", symbol |-> symbol,
                         price |-> price, result |-> pnl,
                         logged |-> recent_log # NoneValue]
        /\ UNCHANGED <<now, executionVars, systemVars, featureVars,
                       drift_detector, learner, runVars>>

FillsNext ==
    \/ \E s \in SystemSymbols, q \in FeedQuantities, p \in FeedPrices, side \in Sides :
          FillFeed(s, q, p, side)
    \/ \E s \in SystemSymbols, p \in FeedPrices : SystemClosePosition(s, p)
    \/ Tick

SpecFills == Init /\ [][FillsNext]_vars

---- (* TradingSystem: iterations over an existing position *)

ShortQuantities == {R(100), R(250), R(400), R(2000)}
ShortFillPrices == {R(50), R(100)}
MaxShortFills == 1
MaxShortLogs == 1

\* a long or a short signal at full confidence in a normal regime
SignedInputs ==
    {[regime |-> "normal", ewma_vol |-> Rat(15, 100),
      combined_signal |-> AlphaSignal(R(v), R(1)),
      signals |-> [momentum |-> AlphaSignal(R(v), R(1))]] : v \in {-1, 1}}

\* the fills that built the position the iteration finds
PositionFill(symbol, quantity, price, side) ==
    /\ Len(trade_history) < MaxShortFills
    /\ SystemRecordFillCall(symbol, quantity, price, side)

SignedIteration(symbol, inp) ==
    /\ Len(decision_logs) < MaxShortLogs
    /\ TradingIterationCall(symbol, TRUE, inp)

SignedNext ==
    \/ \E s \in SystemSymbols, c \in SystemPrices : UpdateBatch(s, MinBars, c)
    \/ \E s \in SystemSymbols, q \in ShortQuantities, p \in ShortFillPrices,
          side \in Sides : PositionFill(s, q, p, side)
    \/ \E s \in SystemSymbols, inp \in SignedInputs : SignedIteration(s, inp)
    \/ \E s \in SystemSymbols, p \in FeedPrices : SystemClosePosition(s, p)

SpecSigned == Init /\ [][SignedNext]_vars

-----------------------------------------------------------------------------
(* Claims about the RiskManager (SpecRisk)                                 *)

HasTag(result, name) == \E i \in 1..Len(result.violations) : result.violations[i].tag = name

Mentions(reason, word) == \E i \in 1..Len(reason) : reason[i] = word

RejectedByKillSwitch(result) ==
    /\ ~result.approved
    /\ HasTag(result, "KILL_SWITCH")
    /\ result.risk_score = R(1)

\* C1: once the kill switch is active it stays active through every call
\* other than reset_kill_switch (update_nav, update_pnl, reset_daily_metrics,
\* check_limits, scale_for_risk), and every check_limits made while it is
\* active returns approved = false with a KILL_SWITCH violation and
\* risk_score 1.
C1_KillSwitchLatches ==
    /\ [](last_call.op = "check_limits" /\ rm.kill_switch_active
              => RejectedByKillSwitch(last_call.result))
    /\ [][rm.kill_switch_active /\ last_call'.op # "reset_kill_switch"
              => rm'.kill_switch_active]_vars

\* C1 witness: a check_limits rejected by a kill switch that was set by
\* _activate_kill_switch and has since seen update_nav, reset_daily_metrics
\* and update_pnl
C1_Witness ==
    /\ last_call.op = "check_limits"
    /\ RejectedByKillSwitch(last_call.result)
    /\ rm.kill_switch_reason = <<"Test", "activation">>
    /\ rm.start_of_day_nav = R(100000)
    /\ rm.current_nav = R(105000)
    /\ rm.daily_pnl = R(1000)

\* C3: right after an update_nav that leaves (peak_nav - current_nav) /
\* peak_nav >= max_drawdown_pct (equality included), the kill switch is
\* active, its reason mentions drawdown, and any check_limits made next
\* rejects with KILL_SWITCH.
C3_DrawdownLatchesKillSwitch ==
    ( /\ last_call.op = "update_nav"
      /\ RLt(R(0), rm.peak_nav)
      /\ RLe(RMul(max_drawdown_pct, rm.peak_nav), RSub(rm.peak_nav, rm.current_nav)) )
    => /\ rm.kill_switch_active
       /\ Mentions(rm.kill_switch_reason, "drawdown")
       /\ \A pos \in ProposedPositions, sector \in Sectors,
             dv \in DailyVolumes, vol \in Vols :
             RejectedByKillSwitch(check_limits(rm, pos, sector, dv, vol))

\* C3 witness: NAVs 100000, 105000, 94500 against the 10% limit: the drawdown
\* is exactly 0.10
C3_Witness ==
    /\ last_call.op = "update_nav"
    /\ last_call.nav = R(94500)
    /\ rm.peak_nav = R(105000)
    /\ current_drawdown(rm) = max_drawdown_pct
    /\ rm.kill_switch_active

\* C13: for any risk state and any proposed position check_limits returns
\* approved = true only when no violation tag was added, and then
\* |position.percent_of_nav| <= max_position_pct.
C13_ApprovedWithinPositionLimit ==
    (last_call.op = "check_limits" /\ last_call.result.approved) =>
        /\ last_call.result.violations = <<>>
        /\ RLe(RAbs(last_call.position.percent_of_nav), max_position_pct)

\* C13 witness: a position of exactly max_position_pct is approved, after
\* the NAV has moved below its peak
C13_Witness ==
    /\ last_call.op = "check_limits"
    /\ last_call.result.approved
    /\ last_call.position.percent_of_nav = max_position_pct
    /\ RLt(R(0), current_drawdown(rm))

\* C14: the kill switch goes from active to inactive only through a
\* reset_kill_switch call, and a reset_kill_switch call with an empty
\* authorization string leaves the kill switch active.
C14_ResetNeedsAuthorization ==
    /\ [][(rm.kill_switch_active /\ ~rm'.kill_switch_active) =>
              \E a \in Authorizations : ResetKillSwitch(a)]_vars
    /\ [][(rm.kill_switch_active /\ ResetKillSwitch("")) =>
              rm'.kill_switch_active]_vars

\* the largest of a non-empty set of NAV samples
MaxSeen(samples) == CHOOSE m \in samples : \A x \in samples : RLe(x, m)

\* C12: after any sequence of update_nav calls peak_nav never decreases and
\* equals the maximum NAV seen so far, and current_drawdown is within [0, 1].
C12_PeakIsRunningMaxDrawdownInUnit ==
    /\ [](last_call.op = "update_nav" =>
            /\ rm.peak_nav = MaxSeen(last_call.seen)
            /\ RLe(R(0), current_drawdown(rm))
            /\ RLe(current_drawdown(rm), R(1)))
    /\ [][RLe(rm.peak_nav, rm'.peak_nav)]_vars

\* the factor the last scale_for_risk applied, read off the result
AppliedFactor ==
    RDiv(last_call.result.percent_of_nav, last_call.position.percent_of_nav)

HeadroomExhausted ==
    \/ RLe(max_drawdown_pct, current_drawdown(rm))
    \/ RLe(max_daily_loss_pct, daily_loss_pct(rm))

\* C27: for any risk state and any urgency in [0, 1], scale_for_risk returns
\* the input position multiplied by a single factor in [0, 1] (never scaled
\* up, sign preserved, factor 0 when the drawdown or daily-loss headroom is
\* exhausted), and the result's capped bit is true whenever the input's was.
C27_ScaleForRiskOnlyScalesDown ==
    last_call.op = "scale_for_risk" =>
        /\ RLe(R(0), AppliedFactor) /\ RLe(AppliedFactor, R(1))
        /\ last_call.result.dollar_amount
               = RMul(last_call.position.dollar_amount, AppliedFactor)
        /\ last_call.result.num_units
               = RMul(last_call.position.num_units, AppliedFactor)
        /\ RSign(last_call.result.num_units)
               \in {0, RSign(last_call.position.num_units)}
        /\ RLe(RAbs(last_call.result.num_units), RAbs(last_call.position.num_units))
        /\ HeadroomExhausted => AppliedFactor = R(0)
        /\ last_call.position.capped => last_call.result.capped

\* a position scaled to nothing under an exhausted headroom, and one scaled
\* by a factor strictly between 0 and 1
C27_Witness ==
    /\ last_call.op = "scale_for_risk"
    /\ HeadroomExhausted
    /\ last_call.urgency = Rat(1, 2)
    /\ last_call.result.num_units = R(0)

-----------------------------------------------------------------------------
(* Claims about the PortfolioManager (SpecPortfolio)                       *)

\* q * (exit - entry) for a long, q * (entry - exit) for a short
SignedPnl(side, q, entry, exit) ==
    IF side = "buy" THEN RMul(q, RSub(exit, entry)) ELSE RMul(q, RSub(entry, exit))

\* the last call is open_position against an existing position of the other side
OppositeOpen ==
    /\ last_call.op = "open_position"
    /\ last_call.symbol \in DOMAIN last_call.before.positions
    /\ last_call.before.positions[last_call.symbol].side # last_call.side

\* the last two calls are open_position on a symbol without a position and
\* close_position on that symbol
OpenThenClose ==
    /\ last_call.op = "close_position"
    /\ "op" \in DOMAIN last_call.prev
    /\ last_call.prev.op = "open_position"
    /\ last_call.prev.symbol = last_call.symbol
    /\ last_call.symbol \notin DOMAIN last_call.prev.before.positions

\* C35: recording a fill at the current market price does not change NAV:
\* for buy and for sell, open_position(symbol, q, p, side) on a symbol that
\* has no position leaves nav equal to its value before the call.
C35_OpeningFillKeepsNav ==
    ( /\ last_call.op = "open_position"
      /\ last_call.symbol \notin DOMAIN last_call.before.positions )
    => nav(Portfolio) = nav(last_call.before)

\* C8: open_position(q, p, side) on a symbol with no position followed by
\* close_position(symbol, p') returns q * (p' - p) signed by side, removes
\* the position and leaves cash = cash before the open + that P&L; with
\* p' = p the P&L is 0 and cash is exactly restored.
C8_OpenCloseRoundTrip ==
    OpenThenClose =>
        LET opened == last_call.prev
            pnl == SignedPnl(opened.side, opened.quantity, opened.price, last_call.price)
        IN  /\ last_call.result = pnl
            /\ last_call.symbol \notin DOMAIN positions
            /\ cash = RAdd(opened.before.cash, pnl)
            /\ (last_call.price = opened.price =>
                    last_call.result = R(0) /\ cash = opened.before.cash)

\* C8 witness: a short opened and then closed at a different price
C8_Witness ==
    /\ OpenThenClose
    /\ last_call.prev.side = "sell"
    /\ last_call.prev.price = R(110)
    /\ last_call.price = R(100)
    /\ last_call.result = RMul(last_call.prev.quantity, R(10))

\* C9: reducing or closing a position by an opposite open_position of
\* q <= q_old at price p leaves cash = cash before the entry of those q units
\* + the P&L realized on them; a full close this way leaves the cash
\* close_position(symbol, p) leaves.
C9_OppositeOpenIsRoundTrip ==
    ( /\ OppositeOpen
      /\ RLe(last_call.quantity,
             last_call.before.positions[last_call.symbol].quantity) )
    => LET old == last_call.before.positions[last_call.symbol]
           q == last_call.quantity
           entry_value == RMul(q, old.avg_entry_price)
           cash_before_entry == IF old.side = "buy"
                                THEN RAdd(last_call.before.cash, entry_value)
                                ELSE RSub(last_call.before.cash, entry_value)
           pnl == SignedPnl(old.side, q, old.avg_entry_price, last_call.price)
           before == [cash |-> last_call.before.cash,
                      positions |-> last_call.before.positions,
                      trade_history |-> <<>>]
       IN  /\ cash = RAdd(cash_before_entry, pnl)
           /\ (q = old.quantity =>
                   cash = close_position(before, last_call.symbol,
                                         last_call.price, last_call.at).cash)

\* C10: an opposite open_position of q > q_old realizes P&L on q_old only and
\* leaves a position of q - q_old on the new side whose avg_entry_price is the
\* reversal price and whose opened_at is the time of the reversal.
C10_ReversalOpensFreshPosition ==
    ( /\ OppositeOpen
      /\ RLt(last_call.before.positions[last_call.symbol].quantity,
             last_call.quantity) )
    => LET old == last_call.before.positions[last_call.symbol]
           pnl == SignedPnl(old.side, old.quantity, old.avg_entry_price, last_call.price)
       IN  /\ last_call.symbol \in DOMAIN positions
           /\ LET pos == positions[last_call.symbol]
              IN  /\ pos.quantity = RSub(last_call.quantity, old.quantity)
                  /\ pos.side = last_call.side
                  /\ pos.avg_entry_price = last_call.price
                  /\ pos.realized_pnl = RAdd(old.realized_pnl, pnl)
                  /\ pos.opened_at = last_call.at

\* C11: after any sequence of open_position (quantity > 0, price > 0),
\* close_position and update_price calls every entry of the ledger has
\* quantity > 0: a position whose quantity reaches 0 is removed.
C11_LedgerQuantitiesPositive ==
    \A s \in DOMAIN positions : RLt(R(0), positions[s].quantity)

\* C11 witness: an opposite open_position of exactly the quantity held has
\* removed the entry
C11_Witness ==
    /\ OppositeOpen
    /\ last_call.quantity = last_call.before.positions[last_call.symbol].quantity
    /\ last_call.symbol \notin DOMAIN positions

\* the last two calls were open_position calls on a held position of the
\* symbol, both at one price for twice the quantity held before the first:
\* the first on the opposite side, the second on the position's own side
TwoReversals ==
    /\ last_call.op = "open_position"
    /\ last_call.prev # NoneValue
    /\ last_call.prev.op = "open_position"
    /\ last_call.prev.symbol = last_call.symbol
    /\ last_call.prev.price = last_call.price
    /\ last_call.symbol \in DOMAIN last_call.prev.before.positions
    /\ LET held == last_call.prev.before.positions[last_call.symbol]
       IN  /\ last_call.prev.side # held.side
           /\ last_call.prev.quantity = RMul(R(2), held.quantity)
           /\ last_call.side = held.side
           /\ last_call.quantity = RMul(R(2), held.quantity)

\* C29: for a position of quantity q on side s, two successive reversing
\* open_position calls at the same price (the opposite side with quantity 2q,
\* then side s with quantity 2q) leave the position with quantity q and
\* side s.
C29_DoubleReversalRestoresPosition ==
    TwoReversals =>
        /\ last_call.symbol \in DOMAIN positions
        /\ positions[last_call.symbol].quantity
               = last_call.prev.before.positions[last_call.symbol].quantity
        /\ positions[last_call.symbol].side
               = last_call.prev.before.positions[last_call.symbol].side

C29_Witness ==
    /\ TwoReversals
    /\ last_call.prev.before.positions[last_call.symbol].side = "sell"
    /\ positions[last_call.symbol].quantity = R(2)

-----------------------------------------------------------------------------
(* Claims about the ExecutionEngine (SpecExecution) *)

RECURSIVE SumFillQuantity(_)
SumFillQuantity(fills) ==
    IF fills = <<>> THEN R(0)
    ELSE RAdd(fills[1].quantity, SumFillQuantity(Tail(fills)))

RECURSIVE SumFillNotional(_)
SumFillNotional(fills) ==
    IF fills = <<>> THEN R(0)
    ELSE RAdd(RMul(fills[1].quantity, fills[1].price), SumFillNotional(Tail(fills)))

TrackedOrderStates ==
    {orders[id] : id \in DOMAIN orders}
        \cup {completed_orders[i] : i \in 1..Len(completed_orders)}

\* the latest tracked state of a client_order_id: the open entry, else the
\* last completed entry, else none
LatestState(id, open, completed) ==
    IF id \in DOMAIN open THEN open[id]
    ELSE LET idx == {i \in 1..Len(completed) : completed[i].order.client_order_id = id}
         IN  IF idx = {} THEN NoneValue
             ELSE completed[CHOOSE i \in idx : \A j \in idx : j <= i]

StatusRank(state) ==
    IF state = NoneValue THEN 0
    ELSE CASE state.status = "pending" -> 0
           [] state.status = "submitted" -> 1
           [] state.status = "partial" -> 2
           [] OTHER -> 3

IsTerminal(state) ==
    state # NoneValue /\ state.status \in {"filled", "cancelled"}

\* C5: for every order the engine tracks, the fill quantities sum to at most
\* order.quantity, and avg_fill_price is the quantity-weighted mean of the
\* fill prices.
C5_FillsWithinOrderQuantity ==
    \A st \in TrackedOrderStates :
        /\ RLe(SumFillQuantity(st.fills), st.order.quantity)
        /\ st.fills # <<>> =>
              st.avg_fill_price
                  = RDiv(SumFillNotional(st.fills), SumFillQuantity(st.fills))

\* C6: the status of a client_order_id only moves forward; once it is filled
\* or cancelled, no later submit, record_fill or cancel_order for that id
\* puts it back into submitted or partial or changes its filled quantity.
C6_StatusOnlyMovesForward ==
    [][\A id \in OrderIds :
          LET old == LatestState(id, orders, completed_orders)
              new == LatestState(id, orders', completed_orders')
          IN  /\ StatusRank(new) >= StatusRank(old)
              /\ IsTerminal(old) =>
                    /\ new.status = old.status
                    /\ new.filled_quantity = old.filled_quantity]_vars

\* C7: a record_fill whose order id is not among the open orders (an id never
\* submitted, or an order already cancelled or filled) changes nothing: open
\* orders, completed orders and slippage history stay as they were and the
\* fill callback is not invoked.
C7_UnknownFillIgnored ==
    [][(\E id \in FillIds, q \in FillQuantities, p \in Prices :
            /\ RecordFill(id, q, p)
            /\ id \notin DOMAIN orders)
        => UNCHANGED <<orders, completed_orders, slippage_history, fill_callbacks>>]_vars

\* a fill just arrived for a cancelled order while the fill callback is set
C7_Witness ==
    /\ last_call.op = "record_fill"
    /\ ~last_call.known
    /\ fill_callbacks.registered
    /\ \E i \in 1..Len(completed_orders) :
          /\ completed_orders[i].order.client_order_id = last_call.order_id
          /\ completed_orders[i].status = "cancelled"

-----------------------------------------------------------------------------
(* Claims about the TradingSystem (SpecSystem) *)

\* C2: within one trading_iteration the NAV is updated before check_limits:
\* when the iteration's own NAV update latches the kill switch, its risk check
\* already rejects with KILL_SWITCH and the iteration creates no order.
C2_LatchingIterationRejects ==
    (/\ last_call.op = "trading_iteration"
     /\ last_call.result # NoneValue
     /\ ~last_call.kill_before
     /\ rm.kill_switch_active)
    => /\ RejectedByKillSwitch(last_call.risk_check)
       /\ last_call.result.order = NoneValue

-----------------------------------------------------------------------------
(* Claims about the fill feed (SpecFills)                                  *)

\* C15: whenever a fill recorded through TradingSystem.record_fill reduces,
\* closes or reverses an existing position, the P&L realized on the closed
\* quantity is recorded as a trade in the Performance Tracker and added to
\* the Risk Manager's daily P&L, as TradingSystem.close_position does.
C15_FillRealizesIntoTrackerAndRisk ==
    [][\A s \in SystemSymbols, q \in FeedQuantities, p \in FeedPrices, side \in Sides :
          ( /\ s \in DOMAIN positions
            /\ SystemRecordFillCall(s, q, p, side)
            /\ positions[s].side # side )
          => LET pos == positions[s]
                 pnl == RealizedOn(pos, RMin(q, pos.quantity), p)
             IN  /\ performance'.trade_pnls = Append(performance.trade_pnls, pnl)
                 /\ rm'.daily_pnl = RAdd(rm.daily_pnl, pnl)]_vars

\* C33: in a running TradingSystem the realized losses reported through
\* close_position accumulate in the risk manager's daily P&L, and once their
\* total reaches max_daily_loss_pct of the start-of-day NAV (the initial
\* capital on the first day) the kill switch is active.
DailyLossLimit == RMul(max_daily_loss_pct, R(initial_capital))

C33_RealizedLossesLatchKillSwitch ==
    /\ [](RLe(DailyLossLimit, RNeg(rm.daily_pnl)) => rm.kill_switch_active)
    /\ [][\A s \in SystemSymbols, p \in FeedPrices :
             SystemClosePosition(s, p)
             => rm'.daily_pnl = RAdd(rm.daily_pnl, last_call'.result)]_vars

-----------------------------------------------------------------------------
(* Claims about iterations over an existing position (SpecSigned)          *)

\* the position of the symbol as a signed number of units
SignedUnits(symbol) ==
    IF symbol \notin DOMAIN positions THEN R(0)
    ELSE IF positions[symbol].side = "buy" THEN positions[symbol].quantity
    ELSE RNeg(positions[symbol].quantity)

\* C34: trading_iteration sizes the trade as the target units minus the
\* signed current position: over a short position whose signed size equals
\* the negative target units it creates no order, and every order it creates
\* is on the side that moves the signed position toward the target.
C34_TradeIsTargetMinusSignedPosition ==
    [][\A s \in SystemSymbols, inp \in SignedInputs :
          (SignedIteration(s, inp) /\ last_call'.result # NoneValue)
          => LET target == size_position(inp.combined_signal, inp.ewma_vol,
                                         nav(Portfolio), last_close[s]).num_units
                 order == last_call'.result.order
             IN  /\ (RLt(SignedUnits(s), R(0)) /\ SignedUnits(s) = target)
                       => order = NoneValue
                 /\ order # NoneValue
                       => (order.side = "buy" <=> RLt(SignedUnits(s), target))]_vars

\* C36: the aggregate-leverage check of trading_iteration uses the
\* portfolio's actual exposure: after fills have built positions, the risk
\* check rejects with a leverage violation whenever the portfolio's current
\* total exposure plus |proposed percent_of_nav| exceeds max_leverage.
C36_LeverageCheckUsesPortfolioExposure ==
    [][\A s \in SystemSymbols, inp \in SignedInputs :
          (SignedIteration(s, inp) /\ last_call'.result # NoneValue)
          => LET target == size_position(inp.combined_signal, inp.ewma_vol,
                                         nav(Portfolio), last_close[s])
                 new_exposure == RAdd(total_exposure(Portfolio),
                                      RAbs(target.percent_of_nav))
             IN  RLt(max_leverage, new_exposure)
                 => /\ ~last_call'.risk_check.approved
                    /\ HasTag(last_call'.risk_check, "leverage")]_vars

\* C37: TradingSystem.close_position on a symbol with no open position
\* returns 0 and changes no state: no trade is added to the Performance
\* Tracker, and no model's trade count, win rate or Thompson parameters
\* change in the Model Selector or the Ensemble.
C37_ClosingNothingChangesNothing ==
    [][\A s \in SystemSymbols, p \in FeedPrices :
          (SystemClosePosition(s, p) /\ s \notin DOMAIN positions)
          => /\ last_call'.result = R(0)
             /\ UNCHANGED <<rm, portfolioVars, performance, models, ensemble>>]_vars

-----------------------------------------------------------------------------
(* Claims about rejected and gated iterations (SpecSystem, SpecInterval)   *)

\* C16: when check_limits rejects the proposed position, the iteration
\* creates no order, its decision log entry records the list of violation
\* tags together with the regime, and the rejection does not start the trade
\* interval that would block the next iteration for the symbol.
C16_RejectionLoggedWithTags ==
    [][\A s \in SystemSymbols, f \in BOOLEAN, inp \in IterationInputs :
          (TradingIteration(s, f, inp)
              /\ last_call'.risk_check # NoneValue
              /\ ~last_call'.risk_check.approved)
          => LET log == last_call'.result
             IN  /\ log # NoneValue
                 /\ log.order = NoneValue
                 /\ log.regime = inp.regime
                 /\ last_trade_time' = last_trade_time
                 /\ "violations" \in DOMAIN log
                 /\ log.violations = last_call'.risk_check.violations]_vars

\* C17: on data insufficiency (fewer than the 50 bars required, or no bars
\* at all) trading_iteration creates no order but still appends a decision
\* log entry for that iteration.
C17_InsufficientDataStillLogged ==
    [][\A s \in SystemSymbols, f \in BOOLEAN, inp \in IterationInputs :
          (BarsGate(nbars, s)
              /\ ~IntervalGate(last_trade_time, s, f, now)
              /\ TradingIteration(s, f, inp))
          => /\ last_trade_time' = last_trade_time
             /\ Len(decision_logs') = Len(decision_logs) + 1
             /\ decision_logs'[Len(decision_logs')].symbol = s
             /\ decision_logs'[Len(decision_logs')].order = NoneValue]_vars

\* the times of the orders the logged iterations created for a symbol
OrderTimes(symbol) ==
    {decision_logs[i].timestamp : i \in
        {j \in 1..Len(decision_logs) :
            decision_logs[j].symbol = symbol /\ decision_logs[j].order # NoneValue}}

\* an order was created for the symbol less than the trade interval ago
WithinInterval(symbol) ==
    \E t \in OrderTimes(symbol) : now - t < min_trade_interval_seconds

\* C18: after trading_iteration created an order for a symbol at time t,
\* every non-forced iteration for that symbol before
\* t + min_trade_interval_seconds returns none without appending a decision
\* log, creating an order or changing risk state; forced iterations and
\* iterations for other symbols are not blocked; an iteration that creates
\* no order does not start the interval.
C18_TradeIntervalGate ==
    [][\A s \in IntervalSymbols, f \in BOOLEAN, inp \in IntervalInputs :
          TradingIteration(s, f, inp) =>
              /\ (~f /\ WithinInterval(s)) =>
                     /\ last_call'.result = NoneValue
                     /\ UNCHANGED <<decision_logs, last_trade_time, rm, orders>>
              /\ ((f \/ ~WithinInterval(s)) /\ ~BarsGate(nbars, s)) =>
                     /\ last_call'.result # NoneValue
                     /\ decision_logs' = Append(decision_logs, last_call'.result)
              /\ (last_call'.result = NoneValue \/ last_call'.result.order = NoneValue) =>
                     last_trade_time' = last_trade_time]_vars

\* C18 witness: half an interval after an order for BTC a non-forced
\* iteration for BTC has returned none, with enough bars buffered
C18_Witness ==
    /\ last_call.op = "trading_iteration"
    /\ last_call.symbol = "BTC"
    /\ ~last_call.force
    /\ last_call.result = NoneValue
    /\ ~BarsGate(nbars, "BTC")
    /\ OrderTimes("BTC") = {0}
    /\ now = HalfInterval

\* C19: any two orders created without an explicit id, two created by
\* create_order at the same clock instant included, carry different
\* client_order_id values.
C19_OrderIdsUnique ==
    \A i, j \in 1..Len(decision_logs) :
        ( /\ i < j
          /\ decision_logs[i].order # NoneValue
          /\ decision_logs[j].order # NoneValue )
        => decision_logs[i].order.client_order_id
               # decision_logs[j].order.client_order_id

-----------------------------------------------------------------------------
(* Claims about the FeatureEngine (SpecFeatures)                           *)

\* the bars of a buffer with timestamp <= t
BarsUpTo(df, t) == SelectSeq(df, LAMBDA bar : bar.timestamp <= t)

\* C20: get_features(symbol, t) depends only on bars with timestamp <= t: two
\* buffers for the symbol that agree on every bar with timestamp <= t and
\* differ only in later bars yield the same feature values for snapshot time
\* t.  The second buffer here is the first without its bars later than t.
C20_PointInTimeFeatures ==
    \A s \in DOMAIN _data, t \in BarTimes :
        get_features(FeatureEngine, s, <<t>>, now).result.features
            = get_features([data |-> Put(_data, s, BarsUpTo(_data[s], t)),
                            cache |-> EmptyDict], s, <<t>>, now).result.features

\* the symbol's buffer was just changed by update or update_batch
BufferChanged(s) ==
    \/ \E c \in BarCloses : FeatureUpdate(s, c, R(1))
    \/ \E b \in Batches : FeatureUpdateBatch(s, b)

\* C21: get_features never serves a stale cache: whatever is cached for a
\* symbol is what the current buffer gives, get_features returns the latest
\* values computed from the current buffer, and an update or update_batch
\* for one symbol drops that symbol's cache and leaves the cached features
\* of every other symbol as they were.
C21_CacheNeverStale ==
    /\ [](\A s \in DOMAIN _cache :
             s \in DOMAIN _data /\ _cache[s] = _calculate_all_features(_data[s]))
    /\ []((last_call.op = "get_features" /\ last_call.symbol \in DOMAIN _data) =>
             last_call.result.features
                 = IF Len(_data[last_call.symbol]) < 2 THEN EmptyDict
                   ELSE latest_values(_calculate_all_features(_data[last_call.symbol])))
    /\ [][\A s \in CacheSymbols :
             BufferChanged(s) =>
                 /\ s \notin DOMAIN _cache'
                 /\ \A o \in CacheSymbols \ {s} :
                        /\ o \in DOMAIN _cache' <=> o \in DOMAIN _cache
                        /\ o \in DOMAIN _cache => _cache'[o] = _cache[o]]_vars

\* C21 witness: BTC was just updated while both symbols had cached features;
\* BTC's cache is gone and ETH's is still there
C21_Witness ==
    /\ last_call.op = "feature_update"
    /\ last_call.symbol = "BTC"
    /\ last_call.cached_before = {"BTC", "ETH"}
    /\ DOMAIN _cache = {"ETH"}

\* C22: for a fixed symbol market-data updates are applied in timestamp
\* order: after any sequence of update calls the bars of the symbol's buffer
\* are in non-decreasing timestamp order.
C22_BufferInTimestampOrder ==
    \A s \in DOMAIN _data :
        \A i, j \in 1..Len(_data[s]) :
            i < j => _data[s][i].timestamp <= _data[s][j].timestamp

-----------------------------------------------------------------------------
(* Claims about the ModelSelector (SpecSelector)                           *)

\* C23: for any registered model in any reachable state,
\* record_outcome(name, pnl, TRUE) leaves the model's posterior mean
\* alpha / (alpha + beta) non-decreasing and record_outcome(name, pnl, FALSE)
\* leaves it non-increasing, for every pnl.
C23_PosteriorMeanMonotone ==
    [][(last_call'.op = "record_outcome" /\ last_call'.model_name \in DOMAIN models) =>
          LET before == posterior_mean(models[last_call'.model_name])
              after == posterior_mean(models'[last_call'.model_name])
          IN  IF last_call'.was_correct THEN RLe(before, after)
              ELSE RLe(after, before)]_vars

-----------------------------------------------------------------------------
(* Claims about the regime and the ensemble (SpecEnsemble)                 *)

\* what the last trading_iteration was handed
LastInput == last_call.inp

\* C24: the regime is CRISIS exactly when realized_vol_20 > 0.50, and in
\* regime CRISIS generate_combined_signal returns value 0 and confidence 0
\* whatever the models' signals are, so the ensemble signal is not active and
\* the trading_iteration creates no order.
C24_CrisisTradesNothing ==
    last_call.op = "trading_iteration" =>
        /\ LastInput.regime = "crisis" <=>
               RLt(Rat(50, 100),
                   feature_get(LastInput.features, "realized_vol_20", Rat(15, 100)))
        /\ LastInput.regime = "crisis" =>
               /\ LastInput.combined_signal.value = R(0)
               /\ LastInput.combined_signal.confidence = R(0)
               /\ ~is_active(LastInput.combined_signal)
               /\ last_call.result # NoneValue => last_call.result.order = NoneValue

\* a CRISIS iteration on a held position whose models all signal long at
\* full confidence, approved by the risk check
C24_Witness ==
    /\ last_call.op = "trading_iteration"
    /\ LastInput.regime = "crisis"
    /\ \A name \in AlphaModelNames : is_active(LastInput.signals[name])
    /\ "BTC" \in DOMAIN positions
    /\ last_call.result # NoneValue
    /\ last_call.risk_check.approved
    /\ last_call.result.order = NoneValue

-----------------------------------------------------------------------------
(* Claims about create_order (SpecOrders)                                  *)

\* |target.num_units - current_position| * price of the last create_order
WantedValue ==
    RMul(RAbs(RSub(last_call.units, last_call.current_position)),
         last_call.current_price)

\* C25: create_order returns none exactly when
\* |target.num_units - current_position| * price < min_order_value; otherwise
\* the order's side is buy iff the trade quantity is positive, its quantity is
\* unsigned and > 0, and quantity * price never exceeds max_order_value: a
\* larger trade is clamped to max_order_value with its sign preserved.
C25_CreateOrderThresholdAndClamp ==
    last_call.op = "create_order" =>
        /\ last_call.result = NoneValue <=> RLt(WantedValue, R(100))
        /\ last_call.result # NoneValue =>
               /\ last_call.result.side \in {"buy", "sell"}
               /\ last_call.result.side = "buy" <=>
                      RLt(last_call.current_position, last_call.units)
               /\ RLt(R(0), last_call.result.quantity)
               /\ RLe(RMul(last_call.result.quantity, last_call.current_price),
                      R(50000))
               /\ RMul(last_call.result.quantity, last_call.current_price)
                      = RMin(WantedValue, R(50000))

\* a sell larger than max_order_value, clamped
C25_Witness ==
    /\ last_call.op = "create_order"
    /\ last_call.result # NoneValue
    /\ RLt(R(50000), WantedValue)
    /\ last_call.result.side = "sell"

-----------------------------------------------------------------------------
(* Claims about the TWAP schedule (SpecTwap)                               *)

RECURSIVE SumQuantity(_, _)
SumQuantity(schedule, n) ==
    IF n = 0 THEN R(0) ELSE RAdd(SumQuantity(schedule, n - 1), schedule[n].quantity)

\* C26: generate_schedule returns exactly num_slices child orders with
\* sequence numbers 0..num_slices-1, every child quantity is >= 0, the last
\* child takes the remainder so the quantities sum to total_quantity, and
\* with timing randomization off the scheduled times are spaced exactly
\* duration / num_slices apart.
C26_TwapSchedule ==
    last_call.op = "generate_schedule" =>
        LET schedule == last_call.result
            n == last_call.num_slices
        IN  /\ Len(schedule) = n
            /\ \A i \in 1..n : schedule[i].sequence = i - 1
            /\ \A i \in 1..n : RLe(R(0), schedule[i].quantity)
            /\ RAdd(SumQuantity(schedule, n - 1), schedule[n].quantity)
                   = last_call.total_quantity
            /\ SumQuantity(schedule, n) = last_call.total_quantity
            /\ ~last_call.randomize_timing =>
                   \A i \in 1..(n - 1) :
                       RSub(schedule[i + 1].scheduled_time, schedule[i].scheduled_time)
                           = Rat(last_call.duration_minutes * 60, n)

\* three slices without timing randomization whose first two quantities
\* differ from the base size
C26_Witness ==
    /\ last_call.op = "generate_schedule"
    /\ last_call.num_slices = 3
    /\ ~last_call.randomize_timing
    /\ last_call.total_quantity = R(10)
    /\ RLt(last_call.result[1].quantity, Rat(10, 3))
    /\ RLt(Rat(10, 3), last_call.result[2].quantity)

-----------------------------------------------------------------------------
(* Claims about the position sizer (SpecSizer)                             *)

\* the raw percentage of the last size_position:
\* target_vol / clip(asset_vol) * value * confidence
RawPct ==
    RMul(RDiv(Rat(15, 100), RClip(last_call.asset_vol, Rat(5, 100), R(1))),
         RMul(last_call.signal.value, last_call.signal.confidence))

\* C28: in size_position a raw percentage exactly equal to max_leverage
\* passes uncapped (percent_of_nav equals the raw percentage and capped is
\* false), and any raw percentage in excess of max_leverage is capped with
\* capped true.
C28_LeverageBoundaryUncapped ==
    last_call.op = "size_position" =>
        /\ RawPct = R(2) =>
               /\ last_call.result.percent_of_nav = RawPct
               /\ ~last_call.result.capped
        /\ RLt(R(2), RAbs(RawPct)) =>
               /\ RLe(RAbs(last_call.result.percent_of_nav), R(2))
               /\ last_call.result.capped

-----------------------------------------------------------------------------
(* Claims about the decision log (SpecLongRun)                             *)

\* the iteration passes the trade-interval and the bar-count gates
PassesGates(symbol, force) ==
    /\ \/ force
       \/ symbol \notin DOMAIN last_trade_time
       \/ now - last_trade_time[symbol] >= 60
    /\ symbol \in DOMAIN nbars
    /\ nbars[symbol] >= 50

\* C30: every trading_iteration that passes the trade-interval and the
\* bar-count gates appends exactly one decision log entry, whether or not an
\* order results; the log keeps its entries in insertion order and never
\* holds more than 10000 entries, dropping the oldest first.
C30_OneLogPerIterationCappedOldestFirst ==
    /\ [](Len(decision_logs) <= 10000)
    /\ [][(now' = now /\ last_call'.op = "trading_iteration"
             /\ PassesGates(last_call'.symbol, last_call'.force)) =>
              /\ last_call'.result # NoneValue
              /\ decision_logs' =
                     IF Len(decision_logs) < 10000
                     THEN Append(decision_logs, last_call'.result)
                     ELSE Append(Tail(decision_logs), last_call'.result)]_vars

\* the log is full, the oldest prior entries are gone and the two newest
\* entries are one with an order and then one without
C30_Witness ==
    /\ Len(decision_logs) = 10000
    /\ decision_logs[1].timestamp > -PriorEntries
    /\ decision_logs[9999].order # NoneValue
    /\ decision_logs[10000].order = NoneValue
    /\ last_call.op = "trading_iteration"
    /\ last_call.result = decision_logs[10000]

-----------------------------------------------------------------------------
(* Claims about the DriftDetector (SpecDrift)                              *)

RecordedTests == drift_detector.drift_history

\* the fraction of drift-detected results among the last 100 recorded tests
RecentDriftRate ==
    LET first == IF Len(RecordedTests) > 100 THEN Len(RecordedTests) - 99 ELSE 1
    IN  Rat(Cardinality({i \in first..Len(RecordedTests) :
                             RecordedTests[i].drift_detected}),
            Len(RecordedTests) - first + 1)

\* C31: should_retrain(threshold) returns true whenever a result with
\* severity high has been recorded in the drift history, and whenever the
\* fraction of drift-detected results among the last 100 recorded tests
\* exceeds threshold; it returns false when no test has been recorded.
C31_RetrainOnHighSeverityOrDriftRate ==
    last_call.op = "drift.should_retrain" =>
        /\ (\E i \in 1..Len(RecordedTests) : RecordedTests[i].severity = "high")
               => last_call.result
        /\ (RecordedTests # <<>> /\ RLt(last_call.threshold, RecentDriftRate))
               => last_call.result
        /\ RecordedTests = <<>> => ~last_call.result

-----------------------------------------------------------------------------
(* Claims about the OnlineLearner (SpecLearner)                            *)

\* C32: should_retrain is true exactly when samples_since_retrain >=
\* min_samples_for_retrain and either no retrain has happened yet or at least
\* retrain_frequency_days have passed since the last one; a completed
\* trigger_retrain resets the sample counter to 0 and records the retrain
\* time, so should_retrain is false until min_samples_for_retrain further
\* samples have been added.
C32_RetrainSchedule ==
    /\ [](should_retrain(learner, now) <=>
             /\ learner.samples_since_retrain >= 1000
             /\ \/ learner.retrain_history = <<>>
                \/ now - learner.last_retrain[1] >= 7 * 86400)
    /\ [](learner.retrain_history = <<>> <=> learner.last_retrain = <<>>)
    /\ [][last_call'.op = "trigger_retrain" /\ learner' # learner =>
              /\ learner'.samples_since_retrain = 0
              /\ learner'.last_retrain = <<now>>
              /\ Len(learner'.retrain_history) = Len(learner.retrain_history) + 1
              /\ ~should_retrain(learner', now')]_vars

\* after a retrain the thousand further samples are in, but the week is not
\* over yet
C32_Witness ==
    /\ learner.last_retrain # <<>>
    /\ learner.samples_since_retrain = 1000
    /\ now > learner.last_retrain[1]
    /\ now - learner.last_retrain[1] < 7 * 86400
    /\ ~should_retrain(learner, now)

-----------------------------------------------------------------------------
(* Claims about the ensemble's Thompson Sampling (SpecThompson)            *)

\* C38: record_model_performance(name, pnl) changes only the named model's
\* (alpha, beta) and P&L history: the Thompson parameters of every other
\* model are unchanged, and a call for a name that is not in the ensemble
\* changes nothing.
C38_RecordChangesOnlyNamedModel ==
    [][\A name \in PerformanceNames, pnl \in PerformancePnls :
          RecordModelPerformance(name, pnl)
          => /\ \A other \in AlphaModelNames \ {name} :
                   /\ ensemble'.ts_params[other] = ensemble.ts_params[other]
                   /\ ensemble'.model_performance[other]
                         = ensemble.model_performance[other]
             /\ name \notin AlphaModelNames => ensemble' = ensemble]_vars

-----------------------------------------------------------------------------
(* Claims about run_async (SpecRun)                                        *)

\* C39: run_async(symbols, interval, max_iterations = n) performs at most n
\* passes over the symbols for every integer n >= 0 and returns with
\* is_running = false; after stop() is called it returns once the current
\* pass and sleep finish, without starting another pass.
C39_RunAsyncBoundedAndStoppable ==
    /\ [](run.pc # "idle" => run.passes <= run.max_iterations[1])
    /\ [](run.pc = "done" => ~is_running)
    /\ [][\A s \in SystemSymbols, inp \in IterationInputs :
             (SleepDone(s, inp) /\ ~is_running)
             => /\ run'.pc = "done"
                /\ run'.passes = run.passes]_vars

=============================================================================
